---- MODULE Spec2Model ----
(***************************************************************************)
(* State-machine model of the CHERI-MIPS capability coprocessor helpers of *)
(* target/mips/op_helper_cheri.c (compressed 128-bit build, CHERI_128      *)
(* defined and CHERI_MAGIC128 not defined).  One action per instruction    *)
(* helper; every helper is a pure operator from the hart state (a record)  *)
(* to the hart state after the helper returned or raised.                  *)
(*                                                                         *)
(* Machine words are AddrBits wide instead of 64: every 64-bit sum of the  *)
(* source is taken modulo Word, every 65-bit quantity (_cr_top, new_top)   *)
(* is an unbounded integer in 0..Word.                                     *)
(***************************************************************************)
EXTENDS Integers, Sequences, FiniteSets, TLC

\* ---------------------------------------------------------------- bounds
AddrBits == 4
MaxSteps == 1
MaxSeqSteps == 2
MaxMemSteps == 3
MaxGdbSteps == 2

Word == 2 ^ AddrBits
HalfWord == 2 ^ (AddrBits \div 2)
UINT64_MAX == Word - 1
CAP_MAX_TOP == Word

\* ------------------------------------------------------- object types
\* The otype field is narrower than an address; the two largest values are
\* the special types, the values up to CAP_MAX_SEALED_OTYPE are user types.
CAP_OTYPE_UNSEALED == 7
CAP_OTYPE_SENTRY == 6
CAP_MAX_SEALED_OTYPE == 3
CP2CAP_IDC == 26

\* ------------------------------------------------------- permissions
CAP_PERM_GLOBAL == "GLOBAL"
CAP_PERM_EXECUTE == "EXECUTE"
CAP_PERM_LOAD == "LOAD"
CAP_PERM_STORE == "STORE"
CAP_PERM_LOAD_CAP == "LOAD_CAP"
CAP_PERM_STORE_CAP == "STORE_CAP"
CAP_PERM_STORE_LOCAL == "STORE_LOCAL"
CAP_PERM_SEAL == "SEAL"
CAP_PERM_CCALL == "CCALL"
CAP_PERM_UNSEAL == "UNSEAL"
CAP_ACCESS_SYS_REGS == "ACCESS_SYS_REGS"
CAP_PERMS_ALL ==
    {CAP_PERM_GLOBAL, CAP_PERM_EXECUTE, CAP_PERM_LOAD, CAP_PERM_STORE,
     CAP_PERM_LOAD_CAP, CAP_PERM_STORE_CAP, CAP_PERM_STORE_LOCAL,
     CAP_PERM_SEAL, CAP_PERM_CCALL, CAP_PERM_UNSEAL, CAP_ACCESS_SYS_REGS}
CAP_UPERMS_ALL == {"U0", "U1", "U2", "U3"}

\* ------------------------------------------------------- capability value
\* cap_register_t: cr_tag, cr_base, _cr_top (65 bits), cr_offset, cr_perms,
\* cr_uperms, cr_otype.
MkCap(tag, base, top, offset, perms, uperms, otype) ==
    [tag |-> tag, base |-> base, top |-> top, offset |-> offset,
     perms |-> perms, uperms |-> uperms, otype |-> otype]

null_capability == MkCap(FALSE, 0, 0, 0, {}, {}, CAP_OTYPE_UNSEALED)

set_max_perms_capability(cursor) ==
    MkCap(TRUE, 0, CAP_MAX_TOP, cursor, CAP_PERMS_ALL, CAP_UPERMS_ALL,
          CAP_OTYPE_UNSEALED)

cap_get_cursor(c) == (c.base + c.offset) % Word
cap_get_base(c) == c.base
cap_get_offset(c) == c.offset
cap_get_top65(c) == c.top
cap_get_top(c) == IF c.top > UINT64_MAX THEN UINT64_MAX ELSE c.top
cap_get_length65(c) == (c.top - c.base) % (2 * Word)
cap_get_length(c) ==
    IF cap_get_length65(c) > UINT64_MAX THEN UINT64_MAX ELSE cap_get_length65(c)

cap_is_unsealed(c) == c.otype = CAP_OTYPE_UNSEALED
cap_is_sealed_entry(c) == c.otype = CAP_OTYPE_SENTRY
cap_is_sealed_with_type(c) == c.otype <= CAP_MAX_SEALED_OTYPE
is_cap_sealed(c) == cap_is_sealed_with_type(c) \/ cap_is_sealed_entry(c)
caps_have_same_type(c1, c2) == c1.otype = c2.otype

cap_set_sealed(c, type) == [c EXCEPT !.otype = type]
cap_set_unsealed(c) == [c EXCEPT !.otype = CAP_OTYPE_UNSEALED]
cap_make_sealed_entry(c) == [c EXCEPT !.otype = CAP_OTYPE_SENTRY]
cap_unseal_entry(c) == [c EXCEPT !.otype = CAP_OTYPE_UNSEALED]

cap_is_in_bounds(c, addr, num_bytes) ==
    /\ addr >= cap_get_base(c)
    /\ addr + num_bytes <= cap_get_top65(c)

align_of(size, addr) ==
    IF size \in {1, 2, 4, 8, 16, 32, 64, 128} THEN addr % size ELSE 1

\* ------------------------------------------------------- compressed codec
\* Bounds are stored with CC128_MANTISSA_WIDTH bits of precision: a length
\* needs exponent e when it exceeds 2^(e-1+mantissa), and base and top are
\* then multiples of 2^e.
CC128_MANTISSA_WIDTH == 2

cc128_exponent(len) ==
    CHOOSE e \in 0..(AddrBits + 1) :
        /\ len <= 2 ^ (e + CC128_MANTISSA_WIDTH)
        /\ \A f \in 0..(e - 1) : len > 2 ^ (f + CC128_MANTISSA_WIDTH)

cc128_align_down(x, e) == x - (x % (2 ^ e))
cc128_align_up(x, e) == cc128_align_down(x + (2 ^ e) - 1, e)

RECURSIVE cc128_round(_, _, _)
cc128_round(b, t, e) ==
    LET nb == cc128_align_down(b, e)
        nt == cc128_align_up(t, e)
        ne == cc128_exponent(nt - nb)
    IN  IF ne > e THEN cc128_round(b, t, ne) ELSE [base |-> nb, top |-> nt]

\* cc128_setbounds(&result, cursor, new_top): the smallest encodable region
\* that contains [cursor, new_top); exact when nothing had to be rounded.
cc128_setbounds(c, cursor, new_top) ==
    LET r == cc128_round(cursor, new_top, cc128_exponent(new_top - cursor))
    IN  [cap |-> [c EXCEPT !.base = r.base, !.top = r.top,
                           !.offset = cursor - r.base],
         exact |-> (r.base = cursor /\ r.top = new_top)]

cc128_is_representable_cap_exact(c) ==
    LET e == cc128_exponent(cap_get_length65(c))
    IN  c.base % (2 ^ e) = 0 /\ c.top % (2 ^ e) = 0

\* is_representable_cap(cap, new_offset): the new cursor lies in the window
\* around the bounds that the encoding can express without changing them.
is_representable_cap(c, new_offset) ==
    LET e == cc128_exponent(cap_get_length65(c))
        space == 2 ^ (e + CC128_MANTISSA_WIDTH + 1)
        below == 2 ^ (e + CC128_MANTISSA_WIDTH - 1)
    IN  \/ space >= Word
        \/ (new_offset + below) % Word < space

is_representable_cap_when_sealed(c, offset) == is_representable_cap(c, offset)

cap_mark_unrepresentable(addr, c) ==
    [c EXCEPT !.tag = FALSE, !.offset = (addr + Word - c.base) % Word]

\* ------------------------------------------------------- hart state
VARIABLES
    cgpr,               \* active_tc._CGPR[1..31] (index 0 is the null register)
    chwr,               \* active_tc.CHWR: the capability hardware registers
    PCC,                \* active_tc.PCC
    CapBranchTarget,    \* active_tc.CapBranchTarget
    CP2_CapCause,       \* capability cause register: (cause, register)
    CP0_BadVAddr,
    exception_index,    \* the exception the last helper raised, if any
    linkedflag,
    statcounters,
    kernel_mode,        \* in_kernel_mode(env)
    cheri_c2e_on_unrepresentable,
    cheri_debugger_on_unrepresentable,
    mem,                \* data memory and tag memory, one entry per capability-sized line
    TLB_L,              \* the load-inhibit flag the TLB left for the last translation
    cpu,                \* the integer, CP0 and FPU registers the debugger stub reaches
    last,               \* the helper that ran last, its operands and the state before it
    prev,               \* the helper that ran before that one
    steps

vars == <<cgpr, chwr, PCC, CapBranchTarget, CP2_CapCause, CP0_BadVAddr,
          exception_index, linkedflag, statcounters, kernel_mode,
          cheri_c2e_on_unrepresentable, cheri_debugger_on_unrepresentable,
          mem, TLB_L, cpu, last, prev, steps>>

GPRegs == {1, 2, CP2CAP_IDC}
HwrNames == {"DDC", "UserTlsCap", "PrivTlsCap", "KR1C", "KR2C", "KCC", "KDC",
             "EPCC", "ErrorEPCC"}

\* CPUMIPSState as one value, so that a helper is an operator on it.
Env ==
    [cgpr |-> cgpr, chwr |-> chwr, PCC |-> PCC,
     CapBranchTarget |-> CapBranchTarget, CP2_CapCause |-> CP2_CapCause,
     CP0_BadVAddr |-> CP0_BadVAddr, exception_index |-> exception_index,
     linkedflag |-> linkedflag, statcounters |-> statcounters,
     kernel_mode |-> kernel_mode,
     c2e_on_unrepresentable |-> cheri_c2e_on_unrepresentable,
     debugger_on_unrepresentable |-> cheri_debugger_on_unrepresentable,
     mem |-> mem, TLB_L |-> TLB_L, cpu |-> cpu]

\* ------------------------------------------------------- register access
get_readonly_capreg(env, num) ==
    IF num = 0 THEN null_capability ELSE env.cgpr[num]

\* Faulty variant: index 0 reads as null here too.
get_capreg_0_is_ddc_reads_null(env, num) ==
    IF num = 0 THEN null_capability ELSE env.cgpr[num]

get_capreg_0_is_ddc(env, num) ==
    IF num = 0 THEN env.chwr["DDC"] ELSE env.cgpr[num]

update_capreg(env, num, newval) ==
    IF num = 0 THEN env ELSE [env EXCEPT !.cgpr[num] = newval]

\* ------------------------------------------------------- exceptions
\* A helper's result: the state it leaves and the value it returns.
Ret(env, value) == [env |-> env, ret |-> value]

do_raise_exception(env, excp) ==
    Ret([env EXCEPT !.exception_index = excp], 0)

do_raise_c0_exception(env, excp, badvaddr) ==
    Ret([env EXCEPT !.CP0_BadVAddr = badvaddr, !.exception_index = excp], 0)

do_raise_c2_exception(env, cause, reg) ==
    Ret([env EXCEPT !.CP2_CapCause = [cause |-> cause, reg |-> reg],
                    !.exception_index = "EXCP_C2E"], 0)

do_raise_c2_exception_noreg(env, cause) == do_raise_c2_exception(env, cause, 255)

helper_raise_exception_debug(env) == do_raise_exception(env, "EXCP_DEBUG")

Raised(r) == r.env.exception_index # "EXCP_NONE"

\* _became_unrepresentable(env, reg): counts, then raises what the two policy
\* flags ask for; returns normally when both are off.
became_unrepresentable(env, reg) ==
    LET counted == [env EXCEPT !.statcounters.unrepresentable_caps = @ + 1]
    IN  IF env.debugger_on_unrepresentable
        THEN helper_raise_exception_debug(counted)
        ELSE IF env.c2e_on_unrepresentable
             THEN do_raise_c2_exception(counted, "CP2Ca_INEXACT", reg)
             ELSE Ret(counted, 0)

\* ------------------------------------------------------- check engine
\* Faulty variant: the bounds are checked before the permission.
check_cap_bounds_first(env, cr, perm, addr, regnum, len) ==
    LET fail(cause) ==
            do_raise_c2_exception([env EXCEPT !.CP0_BadVAddr = addr], cause, regnum)
    IN  IF ~cr.tag THEN fail("CP2Ca_TAG")
        ELSE IF is_cap_sealed(cr) THEN fail("CP2Ca_SEAL")
        ELSE IF ~cap_is_in_bounds(cr, addr, len) THEN fail("CP2Ca_LENGTH")
        ELSE IF perm \notin cr.perms /\ perm = CAP_PERM_EXECUTE
             THEN fail("CP2Ca_PERM_EXE")
        ELSE IF perm \notin cr.perms /\ perm = CAP_PERM_LOAD
             THEN fail("CP2Ca_PERM_LD")
        ELSE IF perm \notin cr.perms /\ perm = CAP_PERM_STORE
             THEN fail("CP2Ca_PERM_ST")
        ELSE IF ~cap_is_in_bounds(cr, addr, len) THEN fail("CP2Ca_LENGTH")
        ELSE IF ~caps_have_same_type(env.PCC, cr) /\ regnum # 0
             THEN fail("CP2Ca_TYPE")
        ELSE Ret(env, 0)

check_cap(env, cr, perm, addr, regnum, len) ==
    LET fail(cause) ==
            do_raise_c2_exception([env EXCEPT !.CP0_BadVAddr = addr], cause, regnum)
    IN  IF ~cr.tag THEN fail("CP2Ca_TAG")
        ELSE IF is_cap_sealed(cr) THEN fail("CP2Ca_SEAL")
        ELSE IF perm \notin cr.perms /\ perm = CAP_PERM_EXECUTE
             THEN fail("CP2Ca_PERM_EXE")
        ELSE IF perm \notin cr.perms /\ perm = CAP_PERM_LOAD
             THEN fail("CP2Ca_PERM_LD")
        ELSE IF perm \notin cr.perms /\ perm = CAP_PERM_STORE
             THEN fail("CP2Ca_PERM_ST")
        ELSE IF ~cap_is_in_bounds(cr, addr, len) THEN fail("CP2Ca_LENGTH")
        ELSE IF ~caps_have_same_type(env.PCC, cr) /\ regnum # 0
             THEN fail("CP2Ca_TYPE")
        ELSE Ret(env, 0)

helper_ccheck_btarget(env, btarget) ==
    check_cap(env, env.PCC, CAP_PERM_EXECUTE, btarget, 255, 4)

helper_ccheck_pc_checks_first(env, next_pc) ==
    LET counted ==
            [env EXCEPT !.statcounters.icount = @ + 1,
                        !.statcounters.icount_kernel =
                            IF env.kernel_mode THEN @ + 1 ELSE @,
                        !.statcounters.icount_user =
                            IF env.kernel_mode THEN @ ELSE @ + 1]
        checked == check_cap(counted, counted.PCC, CAP_PERM_EXECUTE, next_pc, 255, 4)
    IN  IF Raised(checked) THEN checked
        ELSE Ret([checked.env EXCEPT
                      !.PCC.offset = (next_pc + Word - env.PCC.base) % Word], 0)

helper_ccheck_pc(env, next_pc) ==
    LET counted ==
            [env EXCEPT !.statcounters.icount = @ + 1,
                        !.statcounters.icount_kernel =
                            IF env.kernel_mode THEN @ + 1 ELSE @,
                        !.statcounters.icount_user =
                            IF env.kernel_mode THEN @ ELSE @ + 1]
        moved == [counted EXCEPT
                    !.PCC.offset = (next_pc + Word - env.PCC.base) % Word]
    IN  check_cap(moved, moved.PCC, CAP_PERM_EXECUTE, next_pc, 255, 4)

\* Faulty variant: the check names a register other than 0.
check_ddc_names_register(env, perm, ddc_offset, len) ==
    LET ddc == env.chwr["DDC"]
        addr == (ddc_offset + cap_get_cursor(ddc)) % Word
        r == check_cap(env, ddc, perm, addr, 255, len)
    IN  IF Raised(r) THEN r ELSE Ret(r.env, addr)

check_ddc(env, perm, ddc_offset, len) ==
    LET ddc == env.chwr["DDC"]
        addr == (ddc_offset + cap_get_cursor(ddc)) % Word
        r == check_cap(env, ddc, perm, addr, 0, len)
    IN  IF Raised(r) THEN r ELSE Ret(r.env, addr)

helper_ccheck_store(env, offset, len) == check_ddc(env, CAP_PERM_STORE, offset, len)
helper_ccheck_load(env, offset, len) == check_ddc(env, CAP_PERM_LOAD, offset, len)

\* swr/sdr and lwr/ldr: len is a power of two, so offset & (len - 1) is
\* offset % len; the bytes from the aligned offset up to offset are checked.
helper_ccheck_store_right(env, offset, len) ==
    LET low_bits == offset % len
        r == check_ddc(env, CAP_PERM_STORE, offset - low_bits, low_bits + 1)
    IN  IF Raised(r) THEN r ELSE Ret(r.env, (r.ret + low_bits) % Word)

helper_ccheck_load_right(env, offset, len) ==
    LET low_bits == offset % len
        r == check_ddc(env, CAP_PERM_LOAD, offset - low_bits, low_bits + 1)
    IN  IF Raised(r) THEN r ELSE Ret(r.env, (r.ret + low_bits) % Word)

\* ------------------------------------------------------- instruction helpers
RECURSIVE BitAnd(_, _)
BitAnd(a, b) ==
    IF a = 0 \/ b = 0 THEN 0
    ELSE (a % 2) * (b % 2) + 2 * BitAnd(a \div 2, b \div 2)

\* rt of CAndPerm and of CCheckPerm is a mask, held as its fields: the
\* permission bits (rt & CAP_PERMS_ALL), the user-permission bits
\* ((rt >> CAP_UPERMS_SHFT) & CAP_UPERMS_ALL), whether a bit between the two
\* fields is set (gap), and whether a bit above the user permissions is set
\* (high: rt >> (16 + CAP_MAX_UPERM) is not 0).

\* Faulty variant: bits outside the two fields raise USRDEFINE.
helper_candperm_rejects_undefined(env, cd, cb, rt) ==
    LET cbp == get_readonly_capreg(env, cb)
    IN  IF ~cbp.tag THEN do_raise_c2_exception(env, "CP2Ca_TAG", cb)
        ELSE IF is_cap_sealed(cbp) THEN do_raise_c2_exception(env, "CP2Ca_SEAL", cb)
        ELSE IF rt.gap \/ rt.high
             THEN do_raise_c2_exception(env, "CP2Ca_USRDEFINE", cb)
        ELSE Ret(update_capreg(env, cd,
                    [cbp EXCEPT !.perms = cbp.perms \cap rt.perms,
                                !.uperms = cbp.uperms \cap rt.uperms]), 0)

helper_ccheckperm(env, cs, rt) ==
    LET csp == get_readonly_capreg(env, cs)
    IN  IF ~csp.tag THEN do_raise_c2_exception(env, "CP2Ca_TAG", cs)
        ELSE IF ~(rt.perms \subseteq csp.perms)
             THEN do_raise_c2_exception(env, "CP2Ca_USRDEFINE", cs)
        ELSE IF ~(rt.uperms \subseteq csp.uperms)
             THEN do_raise_c2_exception(env, "CP2Ca_USRDEFINE", cs)
        ELSE IF rt.high THEN do_raise_c2_exception(env, "CP2Ca_USRDEFINE", cs)
        ELSE Ret(env, 0)

helper_candperm(env, cd, cb, rt) ==
    LET cbp == get_readonly_capreg(env, cb)
    IN  IF ~cbp.tag THEN do_raise_c2_exception(env, "CP2Ca_TAG", cb)
        ELSE IF is_cap_sealed(cbp) THEN do_raise_c2_exception(env, "CP2Ca_SEAL", cb)
        ELSE Ret(update_capreg(env, cd,
                    [cbp EXCEPT !.perms = cbp.perms \cap rt.perms,
                                !.uperms = cbp.uperms \cap rt.uperms]), 0)

helper_ccleartag(env, cd, cb) ==
    Ret(update_capreg(env, cd, [get_readonly_capreg(env, cb) EXCEPT !.tag = FALSE]), 0)

\* Faulty variant: the source is checked before the pointer is compared with 0.
helper_cfromptr_checks_first(env, cd, cb, rt) ==
    LET cbp == get_capreg_0_is_ddc(env, cb)
        result == [cbp EXCEPT !.offset = rt]
        unrep == became_unrepresentable(env, cd)
    IN  IF ~cbp.tag THEN do_raise_c2_exception(env, "CP2Ca_TAG", cb)
        ELSE IF is_cap_sealed(cbp) THEN do_raise_c2_exception(env, "CP2Ca_SEAL", cb)
        ELSE IF rt = 0 THEN Ret(update_capreg(env, cd, null_capability), 0)
        ELSE IF ~is_representable_cap(cbp, rt)
             THEN IF Raised(unrep) THEN unrep
                  ELSE Ret(update_capreg(unrep.env, cd,
                            cap_mark_unrepresentable((cbp.base + rt) % Word, result)), 0)
        ELSE Ret(update_capreg(env, cd, result), 0)

helper_cfromptr(env, cd, cb, rt) ==
    LET cbp == get_capreg_0_is_ddc(env, cb)
        result == [cbp EXCEPT !.offset = rt]
        unrep == became_unrepresentable(env, cd)
    IN  IF rt = 0 THEN Ret(update_capreg(env, cd, null_capability), 0)
        ELSE IF ~cbp.tag THEN do_raise_c2_exception(env, "CP2Ca_TAG", cb)
        ELSE IF is_cap_sealed(cbp) THEN do_raise_c2_exception(env, "CP2Ca_SEAL", cb)
        ELSE IF ~is_representable_cap(cbp, rt)
             THEN IF Raised(unrep) THEN unrep
                  ELSE Ret(update_capreg(unrep.env, cd,
                            cap_mark_unrepresentable((cbp.base + rt) % Word, result)), 0)
        ELSE Ret(update_capreg(env, cd, result), 0)

helper_cgetaddr(env, cb) == cap_get_cursor(get_readonly_capreg(env, cb))

helper_cgetpcc(env, cd) == Ret(update_capreg(env, cd, env.PCC), 0)

helper_cgetpccsetoffset(env, cd, rs) ==
    LET pccp == env.PCC
        result == [pccp EXCEPT !.offset = rs]
        unrep == IF pccp.tag THEN became_unrepresentable(env, cd) ELSE Ret(env, 0)
    IN  IF ~is_representable_cap(pccp, rs)
        THEN IF Raised(unrep) THEN unrep
             ELSE Ret(update_capreg(unrep.env, cd,
                        cap_mark_unrepresentable((pccp.base + rs) % Word, result)), 0)
        ELSE Ret(update_capreg(env, cd, result), 0)

helper_cincbase(env, cd, cb, rt) == do_raise_exception(env, "EXCP_RI")
helper_csetlen(env, cd, cb, rt) == do_raise_exception(env, "EXCP_RI")

\* Faulty variant: an unrepresentable result is written with its tag.
cincoffset_impl_keeps_tag(env, cd, cb, rt) ==
    LET cbp == get_readonly_capreg(env, cb)
        cb_offset_plus_rt == (cbp.offset + rt) % Word
        result == [cbp EXCEPT !.offset = cb_offset_plus_rt]
        unrep == IF cbp.tag THEN became_unrepresentable(env, cd) ELSE Ret(env, 0)
    IN  IF cbp.tag /\ is_cap_sealed(cbp) /\ rt # 0
        THEN do_raise_c2_exception(env, "CP2Ca_SEAL", cb)
        ELSE IF ~is_representable_cap(cbp, cb_offset_plus_rt)
             THEN IF Raised(unrep) THEN unrep
                  ELSE Ret(update_capreg(unrep.env, cd, result), 0)
        ELSE Ret(update_capreg(env, cd, result), 0)

\* Faulty variant: a sealed source raises SEAL even for an increment of 0.
cincoffset_impl_seal_always(env, cd, cb, rt) ==
    LET cbp == get_readonly_capreg(env, cb)
        cb_offset_plus_rt == (cbp.offset + rt) % Word
        result == [cbp EXCEPT !.offset = cb_offset_plus_rt]
        unrep == IF cbp.tag THEN became_unrepresentable(env, cd) ELSE Ret(env, 0)
    IN  IF cbp.tag /\ is_cap_sealed(cbp)
        THEN do_raise_c2_exception(env, "CP2Ca_SEAL", cb)
        ELSE IF ~is_representable_cap(cbp, cb_offset_plus_rt)
             THEN IF Raised(unrep) THEN unrep
                  ELSE Ret(update_capreg(unrep.env, cd,
                            cap_mark_unrepresentable(
                                (cbp.base + cb_offset_plus_rt) % Word, result)), 0)
        ELSE Ret(update_capreg(env, cd, result), 0)

cincoffset_impl(env, cd, cb, rt) ==
    LET cbp == get_readonly_capreg(env, cb)
        cb_offset_plus_rt == (cbp.offset + rt) % Word
        result == [cbp EXCEPT !.offset = cb_offset_plus_rt]
        unrep == IF cbp.tag THEN became_unrepresentable(env, cd) ELSE Ret(env, 0)
    IN  IF cbp.tag /\ is_cap_sealed(cbp) /\ rt # 0
        THEN do_raise_c2_exception(env, "CP2Ca_SEAL", cb)
        ELSE IF ~is_representable_cap(cbp, cb_offset_plus_rt)
             THEN IF Raised(unrep) THEN unrep
                  ELSE Ret(update_capreg(unrep.env, cd,
                            cap_mark_unrepresentable(
                                (cbp.base + cb_offset_plus_rt) % Word, result)), 0)
        ELSE Ret(update_capreg(env, cd, result), 0)

helper_cincoffset(env, cd, cb, rt) == cincoffset_impl(env, cd, cb, rt)

helper_csetaddr(env, cd, cb, target_addr) ==
    LET cursor == helper_cgetaddr(env, cb)
        diff == (target_addr + Word - cursor) % Word
    IN  cincoffset_impl(env, cd, cb, diff)

helper_candaddr(env, cd, cb, rt) ==
    LET cursor == helper_cgetaddr(env, cb)
        target_addr == BitAnd(cursor, rt)
        diff == (target_addr + Word - cursor) % Word
    IN  cincoffset_impl(env, cd, cb, diff)

helper_cmovz(env, cd, cs, rs) ==
    IF rs = 0 THEN Ret(update_capreg(env, cd, get_readonly_capreg(env, cs)), 0)
    ELSE Ret(env, 0)

helper_cmovn(env, cd, cs, rs) == helper_cmovz(env, cd, cs, IF rs = 0 THEN 1 ELSE 0)

\* Faulty variant: the link of a call through a sentry is left unsealed.
helper_cjalr_plain_link(env, cd, cb) ==
    LET cbp == get_readonly_capreg(env, cb)
        link == [env.PCC EXCEPT !.offset = (@ + 8) % Word]
        target == IF cap_is_sealed_entry(cbp) THEN cap_unseal_entry(cbp) ELSE cbp
        result == link
    IN  IF ~cbp.tag THEN do_raise_c2_exception(env, "CP2Ca_TAG", cb)
        ELSE IF cap_is_sealed_with_type(cbp)
             THEN do_raise_c2_exception(env, "CP2Ca_SEAL", cb)
        ELSE IF CAP_PERM_EXECUTE \notin cbp.perms
             THEN do_raise_c2_exception(env, "CP2Ca_PERM_EXE", cb)
        ELSE IF CAP_PERM_GLOBAL \notin cbp.perms
             THEN do_raise_c2_exception(env, "CP2Ca_GLOBAL", cb)
        ELSE IF ~cap_is_in_bounds(cbp, cap_get_cursor(cbp), 4)
             THEN do_raise_c2_exception(env, "CP2Ca_LENGTH", cb)
        ELSE IF align_of(4, cap_get_cursor(cbp)) # 0
             THEN do_raise_c0_exception(env, "EXCP_AdEL", cap_get_cursor(cbp))
        ELSE LET jumped == [env EXCEPT !.CapBranchTarget = target]
                 linked == update_capreg(jumped, cd, result)
             \* the returned cursor is read through cbp after cd was written
             IN  Ret(linked, cap_get_cursor(get_readonly_capreg(linked, cb)))

helper_cjalr(env, cd, cb) ==
    LET cbp == get_readonly_capreg(env, cb)
        link == [env.PCC EXCEPT !.offset = (@ + 8) % Word]
        target == IF cap_is_sealed_entry(cbp) THEN cap_unseal_entry(cbp) ELSE cbp
        result == IF cap_is_sealed_entry(cbp) THEN cap_make_sealed_entry(link) ELSE link
    IN  IF ~cbp.tag THEN do_raise_c2_exception(env, "CP2Ca_TAG", cb)
        ELSE IF cap_is_sealed_with_type(cbp)
             THEN do_raise_c2_exception(env, "CP2Ca_SEAL", cb)
        ELSE IF CAP_PERM_EXECUTE \notin cbp.perms
             THEN do_raise_c2_exception(env, "CP2Ca_PERM_EXE", cb)
        ELSE IF CAP_PERM_GLOBAL \notin cbp.perms
             THEN do_raise_c2_exception(env, "CP2Ca_GLOBAL", cb)
        ELSE IF ~cap_is_in_bounds(cbp, cap_get_cursor(cbp), 4)
             THEN do_raise_c2_exception(env, "CP2Ca_LENGTH", cb)
        ELSE IF align_of(4, cap_get_cursor(cbp)) # 0
             THEN do_raise_c0_exception(env, "EXCP_AdEL", cap_get_cursor(cbp))
        ELSE LET jumped == [env EXCEPT !.CapBranchTarget = target]
                 linked == update_capreg(jumped, cd, result)
             \* the returned cursor is read through cbp after cd was written
             IN  Ret(linked, cap_get_cursor(get_readonly_capreg(linked, cb)))

\* Faulty variant: a sentry is sealed for a plain jump.
helper_cjr_rejects_sentry(env, cb) ==
    LET cbp == get_readonly_capreg(env, cb)
    IN  IF ~cbp.tag THEN do_raise_c2_exception(env, "CP2Ca_TAG", cb)
        ELSE IF is_cap_sealed(cbp)
             THEN do_raise_c2_exception(env, "CP2Ca_SEAL", cb)
        ELSE IF CAP_PERM_EXECUTE \notin cbp.perms
             THEN do_raise_c2_exception(env, "CP2Ca_PERM_EXE", cb)
        ELSE IF CAP_PERM_GLOBAL \notin cbp.perms
             THEN do_raise_c2_exception(env, "CP2Ca_GLOBAL", cb)
        ELSE IF ~cap_is_in_bounds(cbp, cap_get_cursor(cbp), 4)
             THEN do_raise_c2_exception(env, "CP2Ca_LENGTH", cb)
        ELSE IF align_of(4, cap_get_cursor(cbp)) # 0
             THEN do_raise_c0_exception(env, "EXCP_AdEL", cap_get_cursor(cbp))
        ELSE Ret([env EXCEPT !.CapBranchTarget = cbp], cap_get_cursor(cbp))

\* Faulty variant: GLOBAL is checked before EXECUTE.
helper_cjr_global_first(env, cb) ==
    LET cbp == get_readonly_capreg(env, cb)
        target == IF cap_is_sealed_entry(cbp) THEN cap_unseal_entry(cbp) ELSE cbp
    IN  IF ~cbp.tag THEN do_raise_c2_exception(env, "CP2Ca_TAG", cb)
        ELSE IF cap_is_sealed_with_type(cbp)
             THEN do_raise_c2_exception(env, "CP2Ca_SEAL", cb)
        ELSE IF CAP_PERM_GLOBAL \notin cbp.perms
             THEN do_raise_c2_exception(env, "CP2Ca_GLOBAL", cb)
        ELSE IF CAP_PERM_EXECUTE \notin cbp.perms
             THEN do_raise_c2_exception(env, "CP2Ca_PERM_EXE", cb)
        ELSE IF ~cap_is_in_bounds(cbp, cap_get_cursor(cbp), 4)
             THEN do_raise_c2_exception(env, "CP2Ca_LENGTH", cb)
        ELSE IF align_of(4, cap_get_cursor(cbp)) # 0
             THEN do_raise_c0_exception(env, "EXCP_AdEL", cap_get_cursor(cbp))
        ELSE Ret([env EXCEPT !.CapBranchTarget = target], cap_get_cursor(cbp))

helper_cjr(env, cb) ==
    LET cbp == get_readonly_capreg(env, cb)
        target == IF cap_is_sealed_entry(cbp) THEN cap_unseal_entry(cbp) ELSE cbp
    IN  IF ~cbp.tag THEN do_raise_c2_exception(env, "CP2Ca_TAG", cb)
        ELSE IF cap_is_sealed_with_type(cbp)
             THEN do_raise_c2_exception(env, "CP2Ca_SEAL", cb)
        ELSE IF CAP_PERM_EXECUTE \notin cbp.perms
             THEN do_raise_c2_exception(env, "CP2Ca_PERM_EXE", cb)
        ELSE IF CAP_PERM_GLOBAL \notin cbp.perms
             THEN do_raise_c2_exception(env, "CP2Ca_GLOBAL", cb)
        ELSE IF ~cap_is_in_bounds(cbp, cap_get_cursor(cbp), 4)
             THEN do_raise_c2_exception(env, "CP2Ca_LENGTH", cb)
        ELSE IF align_of(4, cap_get_cursor(cbp)) # 0
             THEN do_raise_c0_exception(env, "EXCP_AdEL", cap_get_cursor(cbp))
        ELSE Ret([env EXCEPT !.CapBranchTarget = target], cap_get_cursor(cbp))

\* Faulty variant: both checks of cs come before the checks of ct.
cseal_common_cs_first(env, cd, cs, ct, conditional) ==
    LET csp == get_readonly_capreg(env, cs)
        ctp == get_readonly_capreg(env, ct)
        ct_base_plus_offset == cap_get_cursor(ctp)
    IN  IF ~csp.tag THEN do_raise_c2_exception(env, "CP2Ca_TAG", cs)
        ELSE IF is_cap_sealed(csp) THEN do_raise_c2_exception(env, "CP2Ca_SEAL", cs)
        ELSE IF ~ctp.tag
             THEN IF conditional THEN Ret(update_capreg(env, cd, csp), 0)
                  ELSE do_raise_c2_exception(env, "CP2Ca_TAG", ct)
        ELSE IF conditional /\ cap_get_cursor(ctp) = UINT64_MAX
             THEN Ret(update_capreg(env, cd, csp), 0)
        ELSE IF is_cap_sealed(ctp) THEN do_raise_c2_exception(env, "CP2Ca_SEAL", ct)
        ELSE IF CAP_PERM_SEAL \notin ctp.perms
             THEN do_raise_c2_exception(env, "CP2Ca_PERM_SEAL", ct)
        ELSE IF ~cap_is_in_bounds(ctp, ct_base_plus_offset, 1)
             THEN do_raise_c2_exception(env, "CP2Ca_LENGTH", ct)
        ELSE IF ct_base_plus_offset > CAP_MAX_SEALED_OTYPE
             THEN do_raise_c2_exception(env, "CP2Ca_LENGTH", ct)
        ELSE IF ~is_representable_cap_when_sealed(csp, cap_get_offset(csp))
             THEN do_raise_c2_exception(env, "CP2Ca_INEXACT", cs)
        ELSE Ret(update_capreg(env, cd, cap_set_sealed(csp, ct_base_plus_offset)), 0)

cseal_common(env, cd, cs, ct, conditional) ==
    LET csp == get_readonly_capreg(env, cs)
        ctp == get_readonly_capreg(env, ct)
        ct_base_plus_offset == cap_get_cursor(ctp)
    IN  IF ~csp.tag THEN do_raise_c2_exception(env, "CP2Ca_TAG", cs)
        ELSE IF ~ctp.tag
             THEN IF conditional THEN Ret(update_capreg(env, cd, csp), 0)
                  ELSE do_raise_c2_exception(env, "CP2Ca_TAG", ct)
        ELSE IF conditional /\ cap_get_cursor(ctp) = UINT64_MAX
             THEN Ret(update_capreg(env, cd, csp), 0)
        ELSE IF is_cap_sealed(csp) THEN do_raise_c2_exception(env, "CP2Ca_SEAL", cs)
        ELSE IF is_cap_sealed(ctp) THEN do_raise_c2_exception(env, "CP2Ca_SEAL", ct)
        ELSE IF CAP_PERM_SEAL \notin ctp.perms
             THEN do_raise_c2_exception(env, "CP2Ca_PERM_SEAL", ct)
        ELSE IF ~cap_is_in_bounds(ctp, ct_base_plus_offset, 1)
             THEN do_raise_c2_exception(env, "CP2Ca_LENGTH", ct)
        ELSE IF ct_base_plus_offset > CAP_MAX_SEALED_OTYPE
             THEN do_raise_c2_exception(env, "CP2Ca_LENGTH", ct)
        ELSE IF ~is_representable_cap_when_sealed(csp, cap_get_offset(csp))
             THEN do_raise_c2_exception(env, "CP2Ca_INEXACT", cs)
        ELSE Ret(update_capreg(env, cd, cap_set_sealed(csp, ct_base_plus_offset)), 0)

helper_cseal(env, cd, cs, ct) == cseal_common(env, cd, cs, ct, FALSE)
helper_ccseal(env, cd, cs, ct) == cseal_common(env, cd, cs, ct, TRUE)

helper_csealentry(env, cd, cs) ==
    LET csp == get_readonly_capreg(env, cs)
    IN  IF ~csp.tag THEN do_raise_c2_exception(env, "CP2Ca_TAG", cs)
        ELSE IF ~cap_is_unsealed(csp) THEN do_raise_c2_exception(env, "CP2Ca_SEAL", cs)
        ELSE IF CAP_PERM_EXECUTE \notin csp.perms
             THEN do_raise_c2_exception(env, "CP2Ca_PERM_EXE", cs)
        ELSE Ret(update_capreg(env, cd, cap_make_sealed_entry(csp)), 0)

helper_cbuildcap(env, cd, cb, ct) ==
    LET cbp == get_capreg_0_is_ddc(env, cb)
        ctp == get_readonly_capreg(env, ct)
        built == [cbp EXCEPT !.base = ctp.base, !.top = ctp.top,
                             !.perms = ctp.perms, !.uperms = ctp.uperms,
                             !.offset = ctp.offset]
        result == IF cap_is_sealed_entry(ctp) THEN cap_make_sealed_entry(built)
                  ELSE [built EXCEPT !.otype = CAP_OTYPE_UNSEALED]
    IN  IF ~cbp.tag THEN do_raise_c2_exception(env, "CP2Ca_TAG", cb)
        ELSE IF is_cap_sealed(cbp) THEN do_raise_c2_exception(env, "CP2Ca_SEAL", cb)
        ELSE IF ctp.base < cbp.base THEN do_raise_c2_exception(env, "CP2Ca_LENGTH", cb)
        ELSE IF cap_get_top(ctp) > cap_get_top(cbp)
             THEN do_raise_c2_exception(env, "CP2Ca_LENGTH", cb)
        ELSE IF ~(ctp.perms \subseteq cbp.perms)
             THEN do_raise_c2_exception(env, "CP2Ca_USRDEFINE", cb)
        ELSE IF ~(ctp.uperms \subseteq cbp.uperms)
             THEN do_raise_c2_exception(env, "CP2Ca_USRDEFINE", cb)
        ELSE Ret(update_capreg(env, cd, result), 0)

int_to_cap(x) == [null_capability EXCEPT !.offset = x]

helper_ccopytype(env, cd, cb, ct) ==
    LET cbp == get_readonly_capreg(env, cb)
        ctp == get_readonly_capreg(env, ct)
    IN  IF ~cbp.tag THEN do_raise_c2_exception(env, "CP2Ca_TAG", cb)
        ELSE IF is_cap_sealed(cbp) THEN do_raise_c2_exception(env, "CP2Ca_SEAL", cb)
        ELSE IF ~cap_is_sealed_with_type(ctp)
             THEN Ret(update_capreg(env, cd, int_to_cap(UINT64_MAX)), 0)
        ELSE IF ctp.otype < cap_get_base(cbp)
             THEN do_raise_c2_exception(env, "CP2Ca_LENGTH", cb)
        ELSE IF ctp.otype >= cap_get_top(cbp)
             THEN do_raise_c2_exception(env, "CP2Ca_LENGTH", cb)
        ELSE Ret(update_capreg(env, cd, [cbp EXCEPT !.offset = ctp.otype - cbp.base]), 0)

\* Faulty variant: the rounded result is written before INEXACT is raised.
do_setbounds_writes_first(must_be_exact, env, cd, cb, length) ==
    LET cbp == get_readonly_capreg(env, cb)
        cursor == cap_get_cursor(cbp)
        new_top == cursor + length
        sb == cc128_setbounds(cbp, cursor, new_top)
        result == sb.cap
        counted == IF sb.exact THEN env
                   ELSE [env EXCEPT !.statcounters.imprecise_setbounds = @ + 1]
    IN  IF ~cbp.tag THEN do_raise_c2_exception(env, "CP2Ca_TAG", cb)
        ELSE IF is_cap_sealed(cbp) THEN do_raise_c2_exception(env, "CP2Ca_SEAL", cb)
        ELSE IF cursor < cbp.base THEN do_raise_c2_exception(env, "CP2Ca_LENGTH", cb)
        ELSE IF new_top > UINT64_MAX THEN do_raise_c2_exception(env, "CP2Ca_LENGTH", cb)
        ELSE IF new_top > cap_get_top(cbp)
             THEN IF cap_get_base(cbp) + cap_get_length(cbp) <= UINT64_MAX
                  THEN do_raise_c2_exception(env, "CP2Ca_LENGTH", cb)
                  ELSE do_raise_exception(env, "ABORT")
        ELSE IF must_be_exact /\ ~sb.exact
             THEN do_raise_c2_exception(update_capreg(counted, cd, result),
                                        "CP2Ca_INEXACT", cb)
        ELSE IF ~cc128_is_representable_cap_exact(result)
             THEN do_raise_exception(counted, "ABORT")
        ELSE IF ~(/\ result.base >= cbp.base
                  /\ cap_get_length65(result) <= cap_get_length65(cbp)
                  /\ cap_get_top65(result) <= cap_get_top65(cbp))
             THEN do_raise_exception(counted, "ABORT")
        ELSE Ret(update_capreg(counted, cd, result), 0)

\* A failed assert() stops the emulator; the model records it as an exception.
do_setbounds(must_be_exact, env, cd, cb, length) ==
    LET cbp == get_readonly_capreg(env, cb)
        cursor == cap_get_cursor(cbp)
        new_top == cursor + length
        sb == cc128_setbounds(cbp, cursor, new_top)
        result == sb.cap
        counted == IF sb.exact THEN env
                   ELSE [env EXCEPT !.statcounters.imprecise_setbounds = @ + 1]
    IN  IF ~cbp.tag THEN do_raise_c2_exception(env, "CP2Ca_TAG", cb)
        ELSE IF is_cap_sealed(cbp) THEN do_raise_c2_exception(env, "CP2Ca_SEAL", cb)
        ELSE IF cursor < cbp.base THEN do_raise_c2_exception(env, "CP2Ca_LENGTH", cb)
        ELSE IF new_top > UINT64_MAX THEN do_raise_c2_exception(env, "CP2Ca_LENGTH", cb)
        ELSE IF new_top > cap_get_top(cbp)
             THEN IF cap_get_base(cbp) + cap_get_length(cbp) <= UINT64_MAX
                  THEN do_raise_c2_exception(env, "CP2Ca_LENGTH", cb)
                  ELSE do_raise_exception(env, "ABORT")
        ELSE IF must_be_exact /\ ~sb.exact
             THEN do_raise_c2_exception(counted, "CP2Ca_INEXACT", cb)
        ELSE IF ~cc128_is_representable_cap_exact(result)
             THEN do_raise_exception(counted, "ABORT")
        ELSE IF ~(/\ result.base >= cbp.base
                  /\ cap_get_length65(result) <= cap_get_length65(cbp)
                  /\ cap_get_top65(result) <= cap_get_top65(cbp))
             THEN do_raise_exception(counted, "ABORT")
        ELSE Ret(update_capreg(counted, cd, result), 0)

helper_csetbounds(env, cd, cb, rt) == do_setbounds(FALSE, env, cd, cb, rt)
helper_csetboundsexact(env, cd, cb, rt) == do_setbounds(TRUE, env, cd, cb, rt)

\* Faulty variant: a sealed source passes when the offset does not change.
helper_csetoffset_identity_allowed(env, cd, cb, rt) ==
    LET cbp == get_readonly_capreg(env, cb)
        result == [cbp EXCEPT !.offset = rt]
        unrep == IF cbp.tag THEN became_unrepresentable(env, cd) ELSE Ret(env, 0)
    IN  IF cbp.tag /\ is_cap_sealed(cbp) /\ rt # cbp.offset
        THEN do_raise_c2_exception(env, "CP2Ca_SEAL", cb)
        ELSE IF ~is_representable_cap(cbp, rt)
             THEN IF Raised(unrep) THEN unrep
                  ELSE Ret(update_capreg(unrep.env, cd,
                            cap_mark_unrepresentable((cbp.base + rt) % Word, result)), 0)
        ELSE Ret(update_capreg(env, cd, result), 0)

helper_csetoffset(env, cd, cb, rt) ==
    LET cbp == get_readonly_capreg(env, cb)
        result == [cbp EXCEPT !.offset = rt]
        unrep == IF cbp.tag THEN became_unrepresentable(env, cd) ELSE Ret(env, 0)
    IN  IF cbp.tag /\ is_cap_sealed(cbp)
        THEN do_raise_c2_exception(env, "CP2Ca_SEAL", cb)
        ELSE IF ~is_representable_cap(cbp, rt)
             THEN IF Raised(unrep) THEN unrep
                  ELSE Ret(update_capreg(unrep.env, cd,
                            cap_mark_unrepresentable((cbp.base + rt) % Word, result)), 0)
        ELSE Ret(update_capreg(env, cd, result), 0)

helper_ctoptr(env, cb, ct) ==
    LET cbp == get_readonly_capreg(env, cb)
        ctp == get_capreg_0_is_ddc(env, ct)
        cb_cursor == cap_get_cursor(cbp)
        ct_top == cap_get_top(ctp)
    IN  IF ~ctp.tag THEN do_raise_c2_exception(env, "CP2Ca_TAG", ct)
        ELSE IF ~cbp.tag THEN Ret(env, 0)
        ELSE IF cb_cursor < ctp.base \/ cb_cursor > ct_top THEN Ret(env, 0)
        ELSE IF ctp.base > cb_cursor THEN Ret(env, ctp.base - cb_cursor)
        ELSE Ret(env, cb_cursor - ctp.base)

\* Faulty variant: GLOBAL of cs survives whatever ct holds.
helper_cunseal_keeps_global(env, cd, cs, ct) ==
    LET csp == get_readonly_capreg(env, cs)
        ctp == get_readonly_capreg(env, ct)
        ct_cursor == cap_get_cursor(ctp)
        result == [csp EXCEPT
                    !.perms = IF CAP_PERM_GLOBAL \in csp.perms
                                 /\ CAP_PERM_GLOBAL \in csp.perms
                              THEN csp.perms \cup {CAP_PERM_GLOBAL}
                              ELSE csp.perms \ {CAP_PERM_GLOBAL}]
    IN  IF ~csp.tag THEN do_raise_c2_exception(env, "CP2Ca_TAG", cs)
        ELSE IF ~ctp.tag THEN do_raise_c2_exception(env, "CP2Ca_TAG", ct)
        ELSE IF cap_is_unsealed(csp) THEN do_raise_c2_exception(env, "CP2Ca_SEAL", cs)
        ELSE IF ~cap_is_unsealed(ctp) THEN do_raise_c2_exception(env, "CP2Ca_SEAL", ct)
        ELSE IF ct_cursor # csp.otype \/ ~cap_is_sealed_with_type(csp)
             THEN do_raise_c2_exception(env, "CP2Ca_TYPE", ct)
        ELSE IF CAP_PERM_UNSEAL \notin ctp.perms
             THEN do_raise_c2_exception(env, "CP2Ca_PERM_UNSEAL", ct)
        ELSE IF ~cap_is_in_bounds(ctp, ct_cursor, 1)
             THEN do_raise_c2_exception(env, "CP2Ca_LENGTH", ct)
        ELSE IF ct_cursor >= CAP_MAX_SEALED_OTYPE
             THEN do_raise_c2_exception(env, "CP2Ca_LENGTH", ct)
        ELSE Ret(update_capreg(env, cd, cap_set_unsealed(result)), 0)

\* Faulty variant: PERM_UNSEAL of ct is not required.
helper_cunseal_no_perm_check(env, cd, cs, ct) ==
    LET csp == get_readonly_capreg(env, cs)
        ctp == get_readonly_capreg(env, ct)
        ct_cursor == cap_get_cursor(ctp)
        result == [csp EXCEPT
                    !.perms = IF CAP_PERM_GLOBAL \in csp.perms
                                 /\ CAP_PERM_GLOBAL \in ctp.perms
                              THEN csp.perms \cup {CAP_PERM_GLOBAL}
                              ELSE csp.perms \ {CAP_PERM_GLOBAL}]
    IN  IF ~csp.tag THEN do_raise_c2_exception(env, "CP2Ca_TAG", cs)
        ELSE IF ~ctp.tag THEN do_raise_c2_exception(env, "CP2Ca_TAG", ct)
        ELSE IF cap_is_unsealed(csp) THEN do_raise_c2_exception(env, "CP2Ca_SEAL", cs)
        ELSE IF ~cap_is_unsealed(ctp) THEN do_raise_c2_exception(env, "CP2Ca_SEAL", ct)
        ELSE IF ct_cursor # csp.otype \/ ~cap_is_sealed_with_type(csp)
             THEN do_raise_c2_exception(env, "CP2Ca_TYPE", ct)
        ELSE IF ~cap_is_in_bounds(ctp, ct_cursor, 1)
             THEN do_raise_c2_exception(env, "CP2Ca_LENGTH", ct)
        ELSE IF ct_cursor >= CAP_MAX_SEALED_OTYPE
             THEN do_raise_c2_exception(env, "CP2Ca_LENGTH", ct)
        ELSE Ret(update_capreg(env, cd, cap_set_unsealed(result)), 0)

helper_cunseal(env, cd, cs, ct) ==
    LET csp == get_readonly_capreg(env, cs)
        ctp == get_readonly_capreg(env, ct)
        ct_cursor == cap_get_cursor(ctp)
        result == [csp EXCEPT
                    !.perms = IF CAP_PERM_GLOBAL \in csp.perms
                                 /\ CAP_PERM_GLOBAL \in ctp.perms
                              THEN csp.perms \cup {CAP_PERM_GLOBAL}
                              ELSE csp.perms \ {CAP_PERM_GLOBAL}]
    IN  IF ~csp.tag THEN do_raise_c2_exception(env, "CP2Ca_TAG", cs)
        ELSE IF ~ctp.tag THEN do_raise_c2_exception(env, "CP2Ca_TAG", ct)
        ELSE IF cap_is_unsealed(csp) THEN do_raise_c2_exception(env, "CP2Ca_SEAL", cs)
        ELSE IF ~cap_is_unsealed(ctp) THEN do_raise_c2_exception(env, "CP2Ca_SEAL", ct)
        ELSE IF ct_cursor # csp.otype \/ ~cap_is_sealed_with_type(csp)
             THEN do_raise_c2_exception(env, "CP2Ca_TYPE", ct)
        ELSE IF CAP_PERM_UNSEAL \notin ctp.perms
             THEN do_raise_c2_exception(env, "CP2Ca_PERM_UNSEAL", ct)
        ELSE IF ~cap_is_in_bounds(ctp, ct_cursor, 1)
             THEN do_raise_c2_exception(env, "CP2Ca_LENGTH", ct)
        ELSE IF ct_cursor >= CAP_MAX_SEALED_OTYPE
             THEN do_raise_c2_exception(env, "CP2Ca_LENGTH", ct)
        ELSE Ret(update_capreg(env, cd, cap_set_unsealed(result)), 0)

helper_cloadlinked(env, cb, size) ==
    LET cbp == get_capreg_0_is_ddc(env, cb)
        addr == cap_get_cursor(cbp)
        unlinked == [env EXCEPT !.linkedflag = 0]
    IN  IF ~cbp.tag THEN do_raise_c2_exception(unlinked, "CP2Ca_TAG", cb)
        ELSE IF is_cap_sealed(cbp) THEN do_raise_c2_exception(unlinked, "CP2Ca_SEAL", cb)
        ELSE IF CAP_PERM_LOAD \notin cbp.perms
             THEN do_raise_c2_exception(unlinked, "CP2Ca_PERM_LD", cb)
        ELSE IF ~cap_is_in_bounds(cbp, addr, size)
             THEN do_raise_c2_exception(unlinked, "CP2Ca_LENGTH", cb)
        ELSE IF align_of(size, addr) # 0
             THEN do_raise_c0_exception(unlinked, "EXCP_AdEL", addr)
        ELSE Ret([unlinked EXCEPT !.linkedflag = 1], addr)

\* ------------------------------------------------------- branches on a capability
helper_cbez(env, cb) ==
    LET cbp == get_readonly_capreg(env, cb)
    IN  Ret(env, IF cbp.base = 0 /\ ~cbp.tag /\ cbp.offset = 0 THEN 1 ELSE 0)

\* Faulty variant: only the tag is looked at.
helper_cbnz_tag_only(env, cb) ==
    LET cbp == get_readonly_capreg(env, cb)
    IN  Ret(env, IF ~cbp.tag THEN 0 ELSE 1)

helper_cbnz(env, cb) ==
    LET cbp == get_readonly_capreg(env, cb)
    IN  Ret(env, IF cbp.base = 0 /\ ~cbp.tag /\ cbp.offset = 0 THEN 0 ELSE 1)

helper_cbts(env, cb) ==
    Ret(env, IF get_readonly_capreg(env, cb).tag THEN 1 ELSE 0)

helper_cbtu(env, cb) ==
    Ret(env, IF get_readonly_capreg(env, cb).tag THEN 0 ELSE 1)

\* ------------------------------------------------------- domain crossing
CCALL_SELECTOR_0 == 0
CCALL_SELECTOR_1 == 1

\* Faulty variant: the object types of cs and cb are not compared.
ccall_common_no_type_check(env, cs, cb, selector) ==
    LET csp == get_readonly_capreg(env, cs)
        cbp == get_readonly_capreg(env, cb)
        \* csp points into the register file: after IDC is written, what is
        \* copied to CapBranchTarget and whose cursor is returned is the
        \* register cs as it is then
        stored == update_capreg(env, CP2CAP_IDC, cap_set_unsealed(cbp))
        target == get_readonly_capreg(stored, cs)
        called == [stored EXCEPT !.CapBranchTarget = cap_set_unsealed(target)]
    IN  IF ~csp.tag THEN do_raise_c2_exception(env, "CP2Ca_TAG", cs)
        ELSE IF ~cbp.tag THEN do_raise_c2_exception(env, "CP2Ca_TAG", cb)
        ELSE IF ~cap_is_sealed_with_type(csp)
             THEN do_raise_c2_exception(env, "CP2Ca_SEAL", cs)
        ELSE IF ~cap_is_sealed_with_type(cbp)
             THEN do_raise_c2_exception(env, "CP2Ca_SEAL", cb)
        ELSE IF CAP_PERM_EXECUTE \notin csp.perms
             THEN do_raise_c2_exception(env, "CP2Ca_PERM_EXE", cs)
        ELSE IF CAP_PERM_EXECUTE \in cbp.perms
             THEN do_raise_c2_exception(env, "CP2Ca_PERM_EXE", cb)
        ELSE IF ~cap_is_in_bounds(csp, cap_get_cursor(csp), 1)
             THEN do_raise_c2_exception(env, "CP2Ca_LENGTH", cs)
        ELSE IF selector = CCALL_SELECTOR_0
             THEN do_raise_c2_exception(env, "CP2Ca_CALL", cs)
        ELSE IF CAP_PERM_CCALL \notin csp.perms
             THEN do_raise_c2_exception(env, "CP2Ca_PERM_CCALL", cs)
        ELSE IF CAP_PERM_CCALL \notin cbp.perms
             THEN do_raise_c2_exception(env, "CP2Ca_PERM_CCALL", cb)
        ELSE Ret(called, cap_get_cursor(target))

\* Faulty variant: the CCALL permission is checked before the selector.
ccall_common_perm_before_selector(env, cs, cb, selector) ==
    LET csp == get_readonly_capreg(env, cs)
        cbp == get_readonly_capreg(env, cb)
        \* csp points into the register file: after IDC is written, what is
        \* copied to CapBranchTarget and whose cursor is returned is the
        \* register cs as it is then
        stored == update_capreg(env, CP2CAP_IDC, cap_set_unsealed(cbp))
        target == get_readonly_capreg(stored, cs)
        called == [stored EXCEPT !.CapBranchTarget = cap_set_unsealed(target)]
    IN  IF ~csp.tag THEN do_raise_c2_exception(env, "CP2Ca_TAG", cs)
        ELSE IF ~cbp.tag THEN do_raise_c2_exception(env, "CP2Ca_TAG", cb)
        ELSE IF ~cap_is_sealed_with_type(csp)
             THEN do_raise_c2_exception(env, "CP2Ca_SEAL", cs)
        ELSE IF ~cap_is_sealed_with_type(cbp)
             THEN do_raise_c2_exception(env, "CP2Ca_SEAL", cb)
        ELSE IF csp.otype # cbp.otype \/ csp.otype > CAP_MAX_SEALED_OTYPE
             THEN do_raise_c2_exception(env, "CP2Ca_TYPE", cs)
        ELSE IF CAP_PERM_EXECUTE \notin csp.perms
             THEN do_raise_c2_exception(env, "CP2Ca_PERM_EXE", cs)
        ELSE IF CAP_PERM_EXECUTE \in cbp.perms
             THEN do_raise_c2_exception(env, "CP2Ca_PERM_EXE", cb)
        ELSE IF ~cap_is_in_bounds(csp, cap_get_cursor(csp), 1)
             THEN do_raise_c2_exception(env, "CP2Ca_LENGTH", cs)
        ELSE IF CAP_PERM_CCALL \notin csp.perms
             THEN do_raise_c2_exception(env, "CP2Ca_PERM_CCALL", cs)
        ELSE IF CAP_PERM_CCALL \notin cbp.perms
             THEN do_raise_c2_exception(env, "CP2Ca_PERM_CCALL", cb)
        ELSE IF selector = CCALL_SELECTOR_0
             THEN do_raise_c2_exception(env, "CP2Ca_CALL", cs)
        ELSE Ret(called, cap_get_cursor(target))

ccall_common(env, cs, cb, selector) ==
    LET csp == get_readonly_capreg(env, cs)
        cbp == get_readonly_capreg(env, cb)
        \* csp points into the register file: after IDC is written, what is
        \* copied to CapBranchTarget and whose cursor is returned is the
        \* register cs as it is then
        stored == update_capreg(env, CP2CAP_IDC, cap_set_unsealed(cbp))
        target == get_readonly_capreg(stored, cs)
        called == [stored EXCEPT !.CapBranchTarget = cap_set_unsealed(target)]
    IN  IF ~csp.tag THEN do_raise_c2_exception(env, "CP2Ca_TAG", cs)
        ELSE IF ~cbp.tag THEN do_raise_c2_exception(env, "CP2Ca_TAG", cb)
        ELSE IF ~cap_is_sealed_with_type(csp)
             THEN do_raise_c2_exception(env, "CP2Ca_SEAL", cs)
        ELSE IF ~cap_is_sealed_with_type(cbp)
             THEN do_raise_c2_exception(env, "CP2Ca_SEAL", cb)
        ELSE IF csp.otype # cbp.otype \/ csp.otype > CAP_MAX_SEALED_OTYPE
             THEN do_raise_c2_exception(env, "CP2Ca_TYPE", cs)
        ELSE IF CAP_PERM_EXECUTE \notin csp.perms
             THEN do_raise_c2_exception(env, "CP2Ca_PERM_EXE", cs)
        ELSE IF CAP_PERM_EXECUTE \in cbp.perms
             THEN do_raise_c2_exception(env, "CP2Ca_PERM_EXE", cb)
        ELSE IF ~cap_is_in_bounds(csp, cap_get_cursor(csp), 1)
             THEN do_raise_c2_exception(env, "CP2Ca_LENGTH", cs)
        ELSE IF selector = CCALL_SELECTOR_0
             THEN do_raise_c2_exception(env, "CP2Ca_CALL", cs)
        ELSE IF CAP_PERM_CCALL \notin csp.perms
             THEN do_raise_c2_exception(env, "CP2Ca_PERM_CCALL", cs)
        ELSE IF CAP_PERM_CCALL \notin cbp.perms
             THEN do_raise_c2_exception(env, "CP2Ca_PERM_CCALL", cb)
        ELSE Ret(called, cap_get_cursor(target))

\* helper_ccall returns void: the value of ccall_common is dropped.
helper_ccall(env, cs, cb) == Ret(ccall_common(env, cs, cb, CCALL_SELECTOR_0).env, 0)

helper_ccall_notrap(env, cs, cb) == ccall_common(env, cs, cb, CCALL_SELECTOR_1)

helper_creturn(env) == do_raise_c2_exception_noreg(env, "CP2Ca_RETURN")

\* mask & (0x1 << creg)
MaskBit(mask, creg) == (mask \div (2 ^ creg)) % 2 = 1

\* Faulty variant: bit 0 is ignored, DDC is never cleared.
helper_cclearreg_keeps_ddc(env, mask) ==
    Ret([env EXCEPT
            !.cgpr = [r \in GPRegs |->
                        IF MaskBit(mask, r) THEN null_capability ELSE env.cgpr[r]]], 0)

\* The loop writes _CGPR[creg] for creg in 1..31; the registers of the model
\* are the ones in GPRegs.
helper_cclearreg(env, mask) ==
    Ret([env EXCEPT
            !.chwr["DDC"] = IF MaskBit(mask, 0) THEN null_capability ELSE @,
            !.cgpr = [r \in GPRegs |->
                        IF MaskBit(mask, r) THEN null_capability ELSE env.cgpr[r]]], 0)

\* ------------------------------------------------------- pointer compare
Bool(b) == IF b THEN 1 ELSE 0

\* (int64_t) of a 64-bit value
ToSigned(x) == IF x >= Word \div 2 THEN x - Word ELSE x

helper_ceq(env, cb, ct) ==
    LET cbp == get_readonly_capreg(env, cb)
        ctp == get_readonly_capreg(env, ct)
        equal == IF cbp.tag # ctp.tag THEN FALSE
                 ELSE cap_get_cursor(cbp) = cap_get_cursor(ctp)
    IN  Ret(env, Bool(equal))

helper_cne(env, cb, ct) ==
    LET cbp == get_readonly_capreg(env, cb)
        ctp == get_readonly_capreg(env, ct)
        equal == IF cbp.tag # ctp.tag THEN FALSE
                 ELSE cap_get_cursor(cbp) = cap_get_cursor(ctp)
    IN  Ret(env, Bool(~equal))

\* Faulty variant: the tags are not looked at.
helper_clt_cursor_only(env, cb, ct) ==
    LET cbp == get_readonly_capreg(env, cb)
        ctp == get_readonly_capreg(env, ct)
    IN  Ret(env, Bool(ToSigned(cap_get_cursor(cbp)) < ToSigned(cap_get_cursor(ctp))))

helper_clt(env, cb, ct) ==
    LET cbp == get_readonly_capreg(env, cb)
        ctp == get_readonly_capreg(env, ct)
        signed_less ==
            IF cbp.tag # ctp.tag THEN ~cbp.tag
            ELSE ToSigned(cap_get_cursor(cbp)) < ToSigned(cap_get_cursor(ctp))
    IN  Ret(env, Bool(signed_less))

helper_cle(env, cb, ct) ==
    LET cbp == get_readonly_capreg(env, cb)
        ctp == get_readonly_capreg(env, ct)
        signed_lte ==
            IF cbp.tag # ctp.tag THEN ~cbp.tag
            ELSE ToSigned(cap_get_cursor(cbp)) <= ToSigned(cap_get_cursor(ctp))
    IN  Ret(env, Bool(signed_lte))

helper_cltu(env, cb, ct) ==
    LET cbp == get_readonly_capreg(env, cb)
        ctp == get_readonly_capreg(env, ct)
        ltu == IF cbp.tag # ctp.tag THEN ~cbp.tag
               ELSE cap_get_cursor(cbp) < cap_get_cursor(ctp)
    IN  Ret(env, Bool(ltu))

helper_cleu(env, cb, ct) ==
    LET cbp == get_readonly_capreg(env, cb)
        ctp == get_readonly_capreg(env, ct)
        leu == IF cbp.tag # ctp.tag THEN ~cbp.tag
               ELSE cap_get_cursor(cbp) <= cap_get_cursor(ctp)
    IN  Ret(env, Bool(leu))

\* cr_uperms is not among the fields compared.
helper_cexeq(env, cb, ct) ==
    LET cbp == get_readonly_capreg(env, cb)
        ctp == get_readonly_capreg(env, ct)
        equal == IF cbp.tag # ctp.tag THEN FALSE
                 ELSE IF cbp.base # ctp.base THEN FALSE
                 ELSE IF cbp.offset # ctp.offset THEN FALSE
                 ELSE IF cbp.top # ctp.top THEN FALSE
                 ELSE IF cbp.otype # ctp.otype THEN FALSE
                 ELSE IF cbp.perms # ctp.perms THEN FALSE
                 ELSE TRUE
    IN  Ret(env, Bool(equal))

helper_cnexeq(env, cb, ct) ==
    Ret(env, Bool(helper_cexeq(env, cb, ct).ret = 0))

helper_ctestsubset(env, cb, ct) ==
    LET cbp == get_readonly_capreg(env, cb)
        ctp == get_readonly_capreg(env, ct)
        is_subset == /\ cbp.tag = ctp.tag
                     /\ cap_get_base(cbp) <= cap_get_base(ctp)
                     /\ cap_get_top(ctp) <= cap_get_top(cbp)
                     /\ (ctp.perms \cap cbp.perms) = ctp.perms
                     /\ (ctp.uperms \cap cbp.uperms) = ctp.uperms
    IN  Ret(env, Bool(is_subset))

\* ------------------------------------------------------- load and store
\* offset is the sign-extended immediate, (int32_t)offset.  The type
\* comparison with PCC after the checks only writes to the log.
helper_cload(env, cb, rt, offset, size) ==
    LET cbp == get_capreg_0_is_ddc(env, cb)
        addr == (cap_get_cursor(cbp) + rt + offset + Word) % Word
    IN  IF ~cbp.tag THEN do_raise_c2_exception(env, "CP2Ca_TAG", cb)
        ELSE IF is_cap_sealed(cbp) THEN do_raise_c2_exception(env, "CP2Ca_SEAL", cb)
        ELSE IF CAP_PERM_LOAD \notin cbp.perms
             THEN do_raise_c2_exception(env, "CP2Ca_PERM_LD", cb)
        ELSE IF ~cap_is_in_bounds(cbp, addr, size)
             THEN do_raise_c2_exception(env, "CP2Ca_LENGTH", cb)
        ELSE IF align_of(size, addr) # 0
             THEN do_raise_c0_exception(env, "EXCP_AdEL", addr)
        ELSE Ret(env, addr)

\* Faulty variant: the alignment is checked before the bounds.
helper_cstore_align_first(env, cb, rt, offset, size) ==
    LET cbp == get_capreg_0_is_ddc(env, cb)
        addr == (cap_get_cursor(cbp) + rt + offset + Word) % Word
    IN  IF ~cbp.tag THEN do_raise_c2_exception(env, "CP2Ca_TAG", cb)
        ELSE IF is_cap_sealed(cbp) THEN do_raise_c2_exception(env, "CP2Ca_SEAL", cb)
        ELSE IF CAP_PERM_STORE \notin cbp.perms
             THEN do_raise_c2_exception(env, "CP2Ca_PERM_ST", cb)
        ELSE IF align_of(size, addr) # 0
             THEN do_raise_c0_exception(env, "EXCP_AdES", addr)
        ELSE IF ~cap_is_in_bounds(cbp, addr, size)
             THEN do_raise_c2_exception(env, "CP2Ca_LENGTH", cb)
        ELSE Ret(env, addr)

helper_cstore(env, cb, rt, offset, size) ==
    LET cbp == get_capreg_0_is_ddc(env, cb)
        addr == (cap_get_cursor(cbp) + rt + offset + Word) % Word
    IN  IF ~cbp.tag THEN do_raise_c2_exception(env, "CP2Ca_TAG", cb)
        ELSE IF is_cap_sealed(cbp) THEN do_raise_c2_exception(env, "CP2Ca_SEAL", cb)
        ELSE IF CAP_PERM_STORE \notin cbp.perms
             THEN do_raise_c2_exception(env, "CP2Ca_PERM_ST", cb)
        ELSE IF ~cap_is_in_bounds(cbp, addr, size)
             THEN do_raise_c2_exception(env, "CP2Ca_LENGTH", cb)
        ELSE IF align_of(size, addr) # 0
             THEN do_raise_c0_exception(env, "EXCP_AdES", addr)
        ELSE Ret(env, addr)

\* ------------------------------------------------------- hardware registers
\* The numbers of the capability hardware registers, as the state dump
\* prints them.
CP2HWR_BASE_INDEX == 0
CP2HWR ==
    [DDC |-> CP2HWR_BASE_INDEX + 0, USER_TLS |-> CP2HWR_BASE_INDEX + 1,
     PRIV_TLS |-> CP2HWR_BASE_INDEX + 8, K1RC |-> CP2HWR_BASE_INDEX + 22,
     K2RC |-> CP2HWR_BASE_INDEX + 23, ErrorEPCC |-> CP2HWR_BASE_INDEX + 28,
     KCC |-> CP2HWR_BASE_INDEX + 29, KDC |-> CP2HWR_BASE_INDEX + 30,
     EPCC |-> CP2HWR_BASE_INDEX + 31]

in_kernel_mode(env) == env.kernel_mode

\* Faulty variant: the kernel's registers ask for kernel mode only.
check_writable_cap_hwr_access_kernel_only(env, hwr) ==
    LET access_sysregs == CAP_ACCESS_SYS_REGS \in env.PCC.perms
        denied == do_raise_c2_exception(env, "CP2Ca_ACCESS_SYS_REGS", hwr)
    IN  CASE hwr = CP2HWR.DDC -> Ret(env, "DDC")
          [] hwr = CP2HWR.USER_TLS -> Ret(env, "UserTlsCap")
          [] hwr = CP2HWR.PRIV_TLS ->
                IF ~access_sysregs THEN denied ELSE Ret(env, "PrivTlsCap")
          [] hwr = CP2HWR.K1RC ->
                IF ~in_kernel_mode(env) THEN denied ELSE Ret(env, "KR1C")
          [] hwr = CP2HWR.K2RC ->
                IF ~in_kernel_mode(env) THEN denied ELSE Ret(env, "KR2C")
          [] hwr = CP2HWR.ErrorEPCC ->
                IF ~in_kernel_mode(env) THEN denied ELSE Ret(env, "ErrorEPCC")
          [] hwr = CP2HWR.KCC ->
                IF ~in_kernel_mode(env) THEN denied ELSE Ret(env, "KCC")
          [] hwr = CP2HWR.KDC ->
                IF ~in_kernel_mode(env) THEN denied ELSE Ret(env, "KDC")
          [] hwr = CP2HWR.EPCC ->
                IF ~in_kernel_mode(env) THEN denied ELSE Ret(env, "EPCC")
          [] OTHER -> do_raise_exception(env, "EXCP_RI")

\* Returns the name of the register the access was granted to.
check_writable_cap_hwr_access(env, hwr) ==
    LET access_sysregs == CAP_ACCESS_SYS_REGS \in env.PCC.perms
        denied == do_raise_c2_exception(env, "CP2Ca_ACCESS_SYS_REGS", hwr)
    IN  CASE hwr = CP2HWR.DDC -> Ret(env, "DDC")
          [] hwr = CP2HWR.USER_TLS -> Ret(env, "UserTlsCap")
          [] hwr = CP2HWR.PRIV_TLS ->
                IF ~access_sysregs THEN denied ELSE Ret(env, "PrivTlsCap")
          [] hwr = CP2HWR.K1RC ->
                IF ~in_kernel_mode(env) THEN denied ELSE Ret(env, "KR1C")
          [] hwr = CP2HWR.K2RC ->
                IF ~in_kernel_mode(env) THEN denied ELSE Ret(env, "KR2C")
          [] hwr = CP2HWR.ErrorEPCC ->
                IF ~in_kernel_mode(env) \/ ~access_sysregs
                THEN denied ELSE Ret(env, "ErrorEPCC")
          [] hwr = CP2HWR.KCC ->
                IF ~in_kernel_mode(env) \/ ~access_sysregs
                THEN denied ELSE Ret(env, "KCC")
          [] hwr = CP2HWR.KDC ->
                IF ~in_kernel_mode(env) \/ ~access_sysregs
                THEN denied ELSE Ret(env, "KDC")
          [] hwr = CP2HWR.EPCC ->
                IF ~in_kernel_mode(env) \/ ~access_sysregs
                THEN denied ELSE Ret(env, "EPCC")
          [] OTHER -> do_raise_exception(env, "EXCP_RI")

check_readonly_cap_hwr_access(env, hwr) == check_writable_cap_hwr_access(env, hwr)

helper_creadhwr(env, cd, hwr) ==
    LET access == check_readonly_cap_hwr_access(env, CP2HWR_BASE_INDEX + hwr)
    IN  IF Raised(access) THEN access
        ELSE Ret(update_capreg(env, cd, env.chwr[access.ret]), 0)

helper_cwritehwr(env, cs, hwr) ==
    LET csp == get_readonly_capreg(env, cs)
        access == check_writable_cap_hwr_access(env, CP2HWR_BASE_INDEX + hwr)
    IN  IF Raised(access) THEN access
        ELSE Ret([env EXCEPT !.chwr[access.ret] = csp], 0)

\* set_CP0_EPC, set_CP0_ErrorEPC: the exception PC is the cursor of EPCC,
\* of ErrorEPCC.
set_CP0_EPC(env, newval) ==
    [env EXCEPT !.chwr["EPCC"].offset =
                    (newval + Word - env.chwr["EPCC"].base) % Word]

set_CP0_ErrorEPC(env, newval) ==
    [env EXCEPT !.chwr["ErrorEPCC"].offset =
                    (newval + Word - env.chwr["ErrorEPCC"].base) % Word]

helper_mtc0_epc(env, arg) ==
    IF ~in_kernel_mode(env) THEN do_raise_exception(env, "EXCP_RI")
    ELSE IF CAP_ACCESS_SYS_REGS \notin env.PCC.perms
         THEN do_raise_c2_exception(env, "CP2Ca_ACCESS_SYS_REGS", CP2HWR.EPCC)
    ELSE Ret(set_CP0_EPC(env, (arg + cap_get_base(env.chwr["EPCC"])) % Word), 0)

helper_mtc0_error_epc(env, arg) ==
    IF ~in_kernel_mode(env) THEN do_raise_exception(env, "EXCP_RI")
    ELSE IF CAP_ACCESS_SYS_REGS \notin env.PCC.perms
         THEN do_raise_c2_exception(env, "CP2Ca_ACCESS_SYS_REGS", CP2HWR.ErrorEPCC)
    ELSE Ret(set_CP0_ErrorEPC(env, (arg + cap_get_base(env.chwr["ErrorEPCC"])) % Word), 0)

\* ------------------------------------------------------- capability memory
\* A capability in memory is two words, pesbt and cursor, and a tag kept
\* apart from the data.  A pesbt word holds the permissions, the object type
\* and the bounds as an exponent e with the low bits b and t of base and top;
\* the high bits of the bounds are those of the cursor, corrected by one
\* window when b or t lies on the other side of the window's start.
CHERI_CAP_SIZE == Word \div 4
MemLines == {a \in 0..(Word - 1) : a % CHERI_CAP_SIZE = 0}
LineOf(addr) == addr - (addr % CHERI_CAP_SIZE)

compress_128cap(c) ==
    LET e == cc128_exponent(cap_get_length65(c))
        space == 2 ^ (e + CC128_MANTISSA_WIDTH + 1)
    IN  [perms |-> c.perms, uperms |-> c.uperms, otype |-> c.otype, e |-> e,
         b |-> IF space >= Word THEN c.base ELSE c.base % space,
         t |-> IF space >= Word THEN c.top ELSE c.top % space]

decompress_128cap(pesbt, cursor) ==
    LET space == 2 ^ (pesbt.e + CC128_MANTISSA_WIDTH + 1)
        below == 2 ^ (pesbt.e + CC128_MANTISSA_WIDTH - 1)
        start == (pesbt.b + space - below) % space
        a_mid == cursor % space
        a_hi == cursor - a_mid
        wrapped(x) == IF x < start THEN 1 ELSE 0
        base == IF space >= Word THEN pesbt.b
                ELSE (a_hi + (wrapped(pesbt.b) - wrapped(a_mid)) * space
                      + pesbt.b + Word) % Word
        top == IF space >= Word THEN pesbt.t
               ELSE (a_hi + (wrapped(pesbt.t) - wrapped(a_mid)) * space
                     + pesbt.t + 2 * Word) % (2 * Word)
    IN  MkCap(FALSE, base, top, (cursor + Word - base) % Word,
              pesbt.perms, pesbt.uperms, pesbt.otype)

\* cr_pesbt_xored_for_mem: the pesbt word a register value keeps for the
\* store of an untagged value; it encodes the fields of the value.
cr_pesbt_xored_for_mem(c) == compress_128cap(c)

\* by is history: the kind of the last store to the line.
MemLine(tag, c, by) ==
    [tag |-> tag, pesbt |-> compress_128cap(c), cursor |-> cap_get_cursor(c),
     by |-> by]

cheri_tag_get(env, vaddr) == env.mem[LineOf(vaddr)].tag

cheri_tag_set(env, vaddr) == [env EXCEPT !.mem[LineOf(vaddr)].tag = TRUE]

\* Clears the tag of every line that [vaddr, vaddr + size) overlaps.
cheri_tag_invalidate(env, vaddr, size) ==
    [env EXCEPT !.mem =
        [a \in MemLines |->
            IF a < vaddr + size /\ vaddr < a + CHERI_CAP_SIZE
            THEN [env.mem[a] EXCEPT !.tag = FALSE] ELSE env.mem[a]]]

clear_tag_if_no_loadcap(env, tag, cbp) ==
    IF tag /\ (env.TLB_L \/ CAP_PERM_LOAD_CAP \notin cbp.perms) THEN FALSE ELSE tag

get_clc_addr(env, cd, cb, rt, offset) ==
    LET cbp == get_capreg_0_is_ddc(env, cb)
        addr == (cap_get_cursor(cbp) + rt + offset + Word) % Word
    IN  IF ~cbp.tag THEN do_raise_c2_exception(env, "CP2Ca_TAG", cb)
        ELSE IF is_cap_sealed(cbp) THEN do_raise_c2_exception(env, "CP2Ca_SEAL", cb)
        ELSE IF CAP_PERM_LOAD \notin cbp.perms
             THEN do_raise_c2_exception(env, "CP2Ca_PERM_LD", cb)
        ELSE IF ~cap_is_in_bounds(cbp, addr, CHERI_CAP_SIZE)
             THEN do_raise_c2_exception(env, "CP2Ca_LENGTH", cb)
        ELSE IF align_of(CHERI_CAP_SIZE, addr) # 0
             THEN do_raise_c0_exception(env, "EXCP_AdEL", addr)
        ELSE Ret(env, addr)

get_cllc_addr(env, cd, cb) ==
    LET cbp == get_capreg_0_is_ddc(env, cb)
        addr == cap_get_cursor(cbp)
        unlinked == [env EXCEPT !.linkedflag = 0]
    IN  IF ~cbp.tag THEN do_raise_c2_exception(unlinked, "CP2Ca_TAG", cb)
        ELSE IF is_cap_sealed(cbp) THEN do_raise_c2_exception(unlinked, "CP2Ca_SEAL", cb)
        ELSE IF CAP_PERM_LOAD \notin cbp.perms
             THEN do_raise_c2_exception(unlinked, "CP2Ca_PERM_LD", cb)
        ELSE IF ~cap_is_in_bounds(cbp, addr, CHERI_CAP_SIZE)
             THEN do_raise_c2_exception(unlinked, "CP2Ca_LENGTH", cb)
        ELSE IF align_of(CHERI_CAP_SIZE, addr) # 0
             THEN do_raise_c0_exception(unlinked, "EXCP_AdEL", addr)
        ELSE Ret([unlinked EXCEPT !.linkedflag = 1], addr)

\* Faulty variant: the stored capability's GLOBAL permission is not looked at.
get_csc_addr_no_local_check(env, cs, cb, rt, offset) ==
    LET cbp == get_capreg_0_is_ddc(env, cb)
        addr == (cap_get_cursor(cbp) + rt + offset + Word) % Word
    IN  IF ~cbp.tag THEN do_raise_c2_exception(env, "CP2Ca_TAG", cb)
        ELSE IF is_cap_sealed(cbp) THEN do_raise_c2_exception(env, "CP2Ca_SEAL", cb)
        ELSE IF CAP_PERM_STORE \notin cbp.perms
             THEN do_raise_c2_exception(env, "CP2Ca_PERM_ST", cb)
        ELSE IF CAP_PERM_STORE_CAP \notin cbp.perms
             THEN do_raise_c2_exception(env, "CP2Ca_PERM_ST_CAP", cb)
        ELSE IF ~cap_is_in_bounds(cbp, addr, CHERI_CAP_SIZE)
             THEN do_raise_c2_exception(env, "CP2Ca_LENGTH", cb)
        ELSE IF align_of(CHERI_CAP_SIZE, addr) # 0
             THEN do_raise_c0_exception(env, "EXCP_AdES", addr)
        ELSE Ret(env, addr)

get_csc_addr(env, cs, cb, rt, offset) ==
    LET cbp == get_capreg_0_is_ddc(env, cb)
        csp == get_readonly_capreg(env, cs)
        addr == (cap_get_cursor(cbp) + rt + offset + Word) % Word
    IN  IF ~cbp.tag THEN do_raise_c2_exception(env, "CP2Ca_TAG", cb)
        ELSE IF is_cap_sealed(cbp) THEN do_raise_c2_exception(env, "CP2Ca_SEAL", cb)
        ELSE IF CAP_PERM_STORE \notin cbp.perms
             THEN do_raise_c2_exception(env, "CP2Ca_PERM_ST", cb)
        ELSE IF CAP_PERM_STORE_CAP \notin cbp.perms
             THEN do_raise_c2_exception(env, "CP2Ca_PERM_ST_CAP", cb)
        ELSE IF /\ CAP_PERM_STORE_LOCAL \notin cbp.perms
                /\ csp.tag
                /\ CAP_PERM_GLOBAL \notin csp.perms
             THEN do_raise_c2_exception(env, "CP2Ca_PERM_ST_LC_CAP", cb)
        ELSE IF ~cap_is_in_bounds(cbp, addr, CHERI_CAP_SIZE)
             THEN do_raise_c2_exception(env, "CP2Ca_LENGTH", cb)
        ELSE IF align_of(CHERI_CAP_SIZE, addr) # 0
             THEN do_raise_c0_exception(env, "EXCP_AdES", addr)
        ELSE Ret(env, addr)

get_cscc_addr(env, cs, cb) ==
    LET cbp == get_capreg_0_is_ddc(env, cb)
        csp == get_readonly_capreg(env, cs)
        addr == cap_get_cursor(cbp)
    IN  IF ~cbp.tag THEN do_raise_c2_exception(env, "CP2Ca_TAG", cb)
        ELSE IF is_cap_sealed(cbp) THEN do_raise_c2_exception(env, "CP2Ca_SEAL", cb)
        ELSE IF CAP_PERM_STORE \notin cbp.perms
             THEN do_raise_c2_exception(env, "CP2Ca_PERM_ST", cb)
        ELSE IF CAP_PERM_STORE_CAP \notin cbp.perms
             THEN do_raise_c2_exception(env, "CP2Ca_PERM_ST_CAP", cb)
        ELSE IF /\ CAP_PERM_STORE_LOCAL \notin cbp.perms
                /\ csp.tag
                /\ CAP_PERM_GLOBAL \notin csp.perms
             THEN do_raise_c2_exception(env, "CP2Ca_PERM_ST_LC_CAP", cb)
        ELSE IF ~cap_is_in_bounds(cbp, addr, CHERI_CAP_SIZE)
             THEN do_raise_c2_exception(env, "CP2Ca_LENGTH", cb)
        ELSE IF align_of(CHERI_CAP_SIZE, addr) # 0
             THEN do_raise_c0_exception(env, "EXCP_AdES", addr)
        ELSE Ret(env, addr)

\* Faulty variant: the tag in memory is taken as it is.
load_cap_from_memory_keeps_tag(env, cd, cb, vaddr, tlb_l) ==
    LET cbp == get_capreg_0_is_ddc(env, cb)
        translated == [env EXCEPT !.TLB_L = tlb_l]
        pesbt == translated.mem[LineOf(vaddr)].pesbt
        cursor == translated.mem[LineOf(vaddr)].cursor
        tag == cheri_tag_get(translated, vaddr)
        ncd == [decompress_128cap(pesbt, cursor) EXCEPT !.tag = tag]
        counted == [translated EXCEPT
                        !.statcounters.cap_read = @ + 1,
                        !.statcounters.cap_read_tagged = IF tag THEN @ + 1 ELSE @]
    IN  Ret(update_capreg(counted, cd, ncd), 0)

\* The two loads of the data go through the TLB, which leaves its
\* load-inhibit flag tlb_l in TLB_L.
load_cap_from_memory(env, cd, cb, vaddr, tlb_l) ==
    LET cbp == get_capreg_0_is_ddc(env, cb)
        translated == [env EXCEPT !.TLB_L = tlb_l]
        pesbt == translated.mem[LineOf(vaddr)].pesbt
        cursor == translated.mem[LineOf(vaddr)].cursor
        tag == clear_tag_if_no_loadcap(translated,
                                       cheri_tag_get(translated, vaddr), cbp)
        ncd == [decompress_128cap(pesbt, cursor) EXCEPT !.tag = tag]
        counted == [translated EXCEPT
                        !.statcounters.cap_read = @ + 1,
                        !.statcounters.cap_read_tagged = IF tag THEN @ + 1 ELSE @]
    IN  Ret(update_capreg(counted, cd, ncd), 0)

\* Faulty variant: the tag is set whatever the stored value's tag is.
store_cap_to_memory_always_tags(env, cs, vaddr) ==
    LET csp == get_readonly_capreg(env, cs)
        cursor == cap_get_cursor(csp)
        pesbt == IF csp.tag THEN compress_128cap(csp)
                 ELSE cr_pesbt_xored_for_mem(csp)
        counted == [env EXCEPT
                        !.statcounters.cap_write = @ + 1,
                        !.statcounters.cap_write_tagged =
                            IF csp.tag THEN @ + 1 ELSE @]
        tagged == cheri_tag_set(counted, vaddr)
    IN  Ret([tagged EXCEPT !.mem[LineOf(vaddr)].pesbt = pesbt,
                           !.mem[LineOf(vaddr)].cursor = cursor,
                           !.mem[LineOf(vaddr)].by = "csc"], 0)

store_cap_to_memory(env, cs, vaddr) ==
    LET csp == get_readonly_capreg(env, cs)
        cursor == cap_get_cursor(csp)
        pesbt == IF csp.tag THEN compress_128cap(csp)
                 ELSE cr_pesbt_xored_for_mem(csp)
        counted == [env EXCEPT
                        !.statcounters.cap_write = @ + 1,
                        !.statcounters.cap_write_tagged =
                            IF csp.tag THEN @ + 1 ELSE @]
        tagged == IF csp.tag THEN cheri_tag_set(counted, vaddr)
                  ELSE cheri_tag_invalidate(counted, vaddr, CHERI_CAP_SIZE)
    IN  Ret([tagged EXCEPT !.mem[LineOf(vaddr)].pesbt = pesbt,
                           !.mem[LineOf(vaddr)].cursor = cursor,
                           !.mem[LineOf(vaddr)].by = "csc"], 0)

helper_cscc_without_tcg(env, cs, cb) ==
    LET vaddr == get_cscc_addr(env, cs, cb)
    IN  IF Raised(vaddr) THEN vaddr
        ELSE IF vaddr.env.linkedflag = 0 THEN Ret(vaddr.env, 0)
        ELSE Ret(store_cap_to_memory(vaddr.env, cs, vaddr.ret).env, 1)

helper_csc_without_tcg(env, cs, cb, rt, offset) ==
    LET vaddr == get_csc_addr(env, cs, cb, rt, offset)
    IN  IF Raised(vaddr) THEN vaddr
        ELSE store_cap_to_memory(vaddr.env, cs, vaddr.ret)

helper_clc_without_tcg(env, cd, cb, rt, offset, tlb_l) ==
    LET vaddr == get_clc_addr(env, cd, cb, rt, offset)
    IN  IF Raised(vaddr) THEN vaddr
        ELSE load_cap_from_memory(vaddr.env, cd, cb, vaddr.ret, tlb_l)

helper_cllc_without_tcg(env, cd, cb, tlb_l) ==
    LET vaddr == get_cllc_addr(env, cd, cb)
    IN  IF Raised(vaddr) THEN vaddr
        ELSE load_cap_from_memory(vaddr.env, cd, cb, vaddr.ret, tlb_l)

helper_cstorecond(env, cb, size) ==
    LET cbp == get_capreg_0_is_ddc(env, cb)
        addr == cap_get_cursor(cbp)
    IN  IF ~cbp.tag THEN do_raise_c2_exception(env, "CP2Ca_TAG", cb)
        ELSE IF is_cap_sealed(cbp) THEN do_raise_c2_exception(env, "CP2Ca_SEAL", cb)
        ELSE IF CAP_PERM_STORE \notin cbp.perms
             THEN do_raise_c2_exception(env, "CP2Ca_PERM_ST", cb)
        ELSE IF ~cap_is_in_bounds(cbp, addr, size)
             THEN do_raise_c2_exception(env, "CP2Ca_LENGTH", cb)
        ELSE IF align_of(size, addr) # 0
             THEN do_raise_c0_exception(env, "EXCP_AdES", addr)
        ELSE Ret(env, addr)

\* cheri_tag_get_many: bit i of the result is the tag of the i-th line from
\* the address on.
RECURSIVE cheri_tag_get_many(_, _, _)
cheri_tag_get_many(env, addr, i) ==
    IF i = 8 THEN 0
    ELSE (IF addr + i * CHERI_CAP_SIZE \in MemLines
             /\ env.mem[addr + i * CHERI_CAP_SIZE].tag THEN 2 ^ i ELSE 0)
         + cheri_tag_get_many(env, addr, i + 1)

helper_cloadtags(env, cb, cbcursor) ==
    LET cbp == get_capreg_0_is_ddc(env, cb)
    IN  IF ~cbp.tag THEN do_raise_c2_exception(env, "CP2Ca_TAG", cb)
        ELSE IF is_cap_sealed(cbp) THEN do_raise_c2_exception(env, "CP2Ca_SEAL", cb)
        ELSE IF CAP_PERM_LOAD \notin cbp.perms
             THEN do_raise_c2_exception(env, "CP2Ca_PERM_LD", cb)
        ELSE IF CAP_PERM_LOAD_CAP \notin cbp.perms
             THEN do_raise_c2_exception(env, "CP2Ca_PERM_LD_CAP", cb)
        ELSE IF cbcursor % (8 * CHERI_CAP_SIZE) # 0
             THEN do_raise_c0_exception(env, "EXCP_AdEL", cbcursor)
        ELSE Ret(env, cheri_tag_get_many(env, cbcursor, 0))

\* Faulty variant: only the line of the first byte loses its tag.
helper_cinvalidate_tag_first_line(env, addr, len) ==
    Ret(cheri_tag_invalidate(env, addr, 1), 0)

helper_cinvalidate_tag(env, addr, len) ==
    Ret(cheri_tag_invalidate(env, addr, len), 0)

helper_cinvalidate_tag32(env, addr, len) ==
    Ret(cheri_tag_invalidate(env, addr, len), 0)

helper_cinvalidate_tag_left_right(env, addr, len) ==
    Ret(cheri_tag_invalidate(env, addr, 1), 0)

\* The store of the data that the generated code does between the check and
\* the tag invalidation: every word that [addr, addr + len) covers takes the
\* value's word of the same position, and every line it reaches into is
\* marked as written by an integer store.
store_data(env, addr, len, value) ==
    LET half == CHERI_CAP_SIZE \div 2
        covers(a) == addr <= a /\ a + half <= addr + len
    IN  [env EXCEPT !.mem =
            [a \in MemLines |->
                [env.mem[a] EXCEPT
                    !.pesbt = IF covers(a) THEN value.pesbt ELSE @,
                    !.cursor = IF covers(a + half) THEN value.cursor ELSE @,
                    !.by = IF a < addr + len /\ addr < a + CHERI_CAP_SIZE
                           THEN "store" ELSE @]]]

\* An integer store of a legacy instruction, as the generated code runs it:
\* the check against DDC, the store of the data, the tag invalidation.
store_via_ddc(env, offset, len, value) ==
    LET checked == helper_ccheck_store(env, offset, len)
    IN  IF Raised(checked) THEN checked
        ELSE helper_cinvalidate_tag(store_data(checked.env, checked.ret, len, value),
                                    checked.ret, len)

\* ------------------------------------------------------- debugger stub
\* target_ulong and the 64-bit FPU registers are Word wide here, the 32-bit
\* registers (Status, Cause, FCR31, FCR0, the low word of an FPR) HalfWord.
sizeof_target_ulong == 8
CP0St_FR == AddrBits \div 2 - 1

\* (int32_t)x widened to target_ulong.
SignExtend32(x) == IF x >= HalfWord \div 2 THEN x + Word - HalfWord ELSE x

\* x with the bits of mask taken from val.
Masked(x, val, mask) == BitAnd(val, mask) + (x - BitAnd(x, mask))

CpuReset(fp, status) ==
    [gpr |-> [i \in 0..31 |-> IF i = 1 THEN 3 ELSE 0],
     LO |-> 1, HI |-> 2, PC |-> 4, hflags |-> {"MIPS_HFLAG_KSU"},
     CP0_Status |-> status, CP0_Status_rw_bitmask |-> HalfWord - 1,
     CP0_Cause |-> HalfWord - 1, CP0_PRid |-> HalfWord - 1,
     CP0_Config1 |-> IF fp THEN {"CP0C1_FP"} ELSE {},
     fpr |-> [i \in 0..31 |-> IF i = 0 THEN Word - 3 ELSE 0],
     fcr31 |-> HalfWord - 1, fcr0 |-> 1, fcr31_rw_bitmask |-> HalfWord \div 2]

gdb_get_regl(mem_buf, val) == [len |-> sizeof_target_ulong, mem_buf |-> val % Word]
gdb_get_reg64(mem_buf, val) == [len |-> 8, mem_buf |-> val % Word]
ldtul_p(mem_buf) == mem_buf % Word
ldq_p(mem_buf) == mem_buf % Word

\* Status and Cause take the writable bits of the value.
cpu_mips_store_status(env, val) ==
    [env EXCEPT !.cpu.CP0_Status =
        Masked(@, val % HalfWord, env.cpu.CP0_Status_rw_bitmask)]
cpu_mips_store_cause(env, val) ==
    [env EXCEPT !.cpu.CP0_Cause = Masked(@, val % HalfWord, 1)]

gdb_fpu_present(env) == "CP0C1_FP" \in env.cpu.CP0_Config1
gdb_fr_mode(env) == BitAnd(env.cpu.CP0_Status, 2 ^ CP0St_FR) # 0

mips_cpu_gdb_read_register(env, mem_buf, n) ==
    IF n < 32 THEN Ret(env, gdb_get_regl(mem_buf, env.cpu.gpr[n]))
    ELSE IF gdb_fpu_present(env) /\ n >= 38 /\ n < 72
    THEN CASE n = 70 -> Ret(env, gdb_get_regl(mem_buf, SignExtend32(env.cpu.fcr31)))
           [] n = 71 -> Ret(env, gdb_get_regl(mem_buf, SignExtend32(env.cpu.fcr0)))
           [] OTHER ->
                IF gdb_fr_mode(env)
                THEN Ret(env, gdb_get_reg64(mem_buf, env.cpu.fpr[n - 38]))
                ELSE Ret(env, gdb_get_regl(mem_buf, env.cpu.fpr[n - 38] % HalfWord))
    ELSE CASE n = 32 -> Ret(env, gdb_get_regl(mem_buf, SignExtend32(env.cpu.CP0_Status)))
           [] n = 33 -> Ret(env, gdb_get_regl(mem_buf, env.cpu.LO))
           [] n = 34 -> Ret(env, gdb_get_regl(mem_buf, env.cpu.HI))
           [] n = 35 -> Ret(env, gdb_get_regl(mem_buf, env.CP0_BadVAddr))
           [] n = 36 -> Ret(env, gdb_get_regl(mem_buf, SignExtend32(env.cpu.CP0_Cause)))
           [] n = 37 ->
                Ret(env, gdb_get_regl(mem_buf,
                    IF "MIPS_HFLAG_M16" \in env.cpu.hflags
                    THEN env.cpu.PC - (env.cpu.PC % 2) + 1 ELSE env.cpu.PC))
           [] OTHER -> Ret(env, [len |-> 0, mem_buf |-> mem_buf])

mips_cpu_gdb_write_register(env, mem_buf, n) ==
    LET tmp == ldtul_p(mem_buf)
        done(e) == Ret(e, [len |-> sizeof_target_ulong, mem_buf |-> mem_buf])
    IN  IF n < 32 THEN done([env EXCEPT !.cpu.gpr[n] = tmp])
        ELSE IF gdb_fpu_present(env) /\ n >= 38 /\ n < 72
        THEN CASE n = 70 ->
                    done([env EXCEPT !.cpu.fcr31 =
                            Masked(@, tmp % HalfWord, env.cpu.fcr31_rw_bitmask)])
               [] n = 71 -> done(env)
               [] OTHER ->
                    IF gdb_fr_mode(env)
                    THEN done([env EXCEPT !.cpu.fpr[n - 38] = ldq_p(mem_buf)])
                    ELSE done([env EXCEPT !.cpu.fpr[n - 38] =
                                    @ - (@ % HalfWord) + (tmp % HalfWord)])
        ELSE CASE n = 32 -> done(cpu_mips_store_status(env, tmp))
               [] n = 33 -> done([env EXCEPT !.cpu.LO = tmp])
               [] n = 34 -> done([env EXCEPT !.cpu.HI = tmp])
               [] n = 35 -> done([env EXCEPT !.CP0_BadVAddr = tmp])
               [] n = 36 -> done(cpu_mips_store_cause(env, tmp))
               [] n = 37 ->
                    done([env EXCEPT
                            !.cpu.PC = tmp - (tmp % 2),
                            !.cpu.hflags = IF tmp % 2 = 1
                                           THEN @ \cup {"MIPS_HFLAG_M16"}
                                           ELSE @ \ {"MIPS_HFLAG_M16"}])
               [] OTHER ->
                    IF n > 72 THEN Ret(env, [len |-> 0, mem_buf |-> mem_buf])
                    ELSE done(env)

mips_gdb_get_sys_reg(env, mem_buf, n) ==
    IF n = 0 THEN Ret(env, gdb_get_regl(mem_buf, SignExtend32(env.cpu.CP0_PRid)))
    ELSE Ret(env, [len |-> 0, mem_buf |-> mem_buf])

mips_gdb_set_sys_reg(env, mem_buf, n) ==
    IF n = 0 THEN Ret(env, [len |-> sizeof_target_ulong, mem_buf |-> mem_buf])
    ELSE Ret(env, [len |-> 0, mem_buf |-> mem_buf])

\* The buffer of a capability is the pair of its two words.
gdb_get_capreg(mem_buf, cap) ==
    [len |-> 16,
     mem_buf |-> <<IF cap.tag THEN compress_128cap(cap)
                   ELSE cr_pesbt_xored_for_mem(cap),
                   cap_get_cursor(cap)>>]

\* The bit set of index 43 is the set of its bit positions.
mips_gdb_get_cheri_reg(env, mem_buf, n) ==
    IF n < 32 THEN Ret(env, gdb_get_capreg(mem_buf, env.cgpr[n]))
    ELSE CASE n = 32 -> Ret(env, gdb_get_capreg(mem_buf, env.chwr["DDC"]))
           [] n = 33 -> Ret(env, gdb_get_capreg(mem_buf, env.PCC))
           [] n = 34 -> Ret(env, gdb_get_capreg(mem_buf, env.chwr["UserTlsCap"]))
           [] n = 35 -> Ret(env, gdb_get_capreg(mem_buf, env.chwr["PrivTlsCap"]))
           [] n = 36 -> Ret(env, gdb_get_capreg(mem_buf, env.chwr["KR1C"]))
           [] n = 37 -> Ret(env, gdb_get_capreg(mem_buf, env.chwr["KR2C"]))
           [] n = 38 -> Ret(env, gdb_get_capreg(mem_buf, env.chwr["KCC"]))
           [] n = 39 -> Ret(env, gdb_get_capreg(mem_buf, env.chwr["KDC"]))
           [] n = 40 -> Ret(env, gdb_get_capreg(mem_buf, env.chwr["EPCC"]))
           [] n = 41 -> Ret(env, gdb_get_capreg(mem_buf, env.chwr["ErrorEPCC"]))
           [] n = 42 -> Ret(env, [len |-> sizeof_target_ulong,
                                  mem_buf |-> env.CP2_CapCause])
           [] n = 43 ->
                Ret(env, [len |-> sizeof_target_ulong,
                          mem_buf |-> {i \in {0} : env.chwr["DDC"].tag}
                                \cup {i \in DOMAIN env.cgpr : env.cgpr[i].tag}
                                \cup {i \in {32} : env.PCC.tag}])
           [] OTHER -> Ret(env, [len |-> 0, mem_buf |-> mem_buf])

\* Faulty variant: a general-purpose capability register takes the value
\* the buffer encodes.
mips_gdb_set_cheri_reg_writes(env, mem_buf, n) ==
    IF n \in DOMAIN env.cgpr
    THEN Ret([env EXCEPT !.cgpr[n] = decompress_128cap(mem_buf[1], mem_buf[2])],
             [len |-> 16, mem_buf |-> mem_buf])
    ELSE IF n < 42 THEN Ret(env, [len |-> 16, mem_buf |-> mem_buf])
    ELSE IF n = 42 \/ n = 43 THEN Ret(env, [len |-> 8, mem_buf |-> mem_buf])
    ELSE Ret(env, [len |-> 0, mem_buf |-> mem_buf])

mips_gdb_set_cheri_reg(env, mem_buf, n) ==
    IF n < 42 THEN Ret(env, [len |-> 16, mem_buf |-> mem_buf])
    ELSE IF n = 42 \/ n = 43 THEN Ret(env, [len |-> 8, mem_buf |-> mem_buf])
    ELSE Ret(env, [len |-> 0, mem_buf |-> mem_buf])

\* ------------------------------------------------------- register contents
\* Values a capability register can hold.  A tagged value has base <= top and
\* bounds the codec encodes exactly; an untagged value is any bit pattern, as
\* a capability load of untagged memory delivers it.
PermsNoGlobal == CAP_PERMS_ALL \ {CAP_PERM_GLOBAL}
PermsData == {CAP_PERM_GLOBAL, CAP_PERM_LOAD, CAP_PERM_STORE}
PermsNoSeal == CAP_PERMS_ALL \ {CAP_PERM_SEAL, CAP_PERM_UNSEAL}

Data(base, top, offset, perms) ==
    MkCap(TRUE, base, top, offset, perms, CAP_UPERMS_ALL, CAP_OTYPE_UNSEALED)

SourceCaps ==
    {set_max_perms_capability(12), set_max_perms_capability(1),
     Data(4, 8, 0, CAP_PERMS_ALL), Data(4, 8, 1, CAP_PERMS_ALL),
     Data(4, 8, 4, CAP_PERMS_ALL), Data(12, 15, 0, CAP_PERMS_ALL),
     Data(4, 8, 0, PermsNoGlobal), Data(4, 8, 0, PermsData),
     Data(4, 12, 5, {CAP_PERM_LOAD}),
     cap_set_sealed(Data(4, 8, 0, CAP_PERMS_ALL), 1),
     cap_set_sealed(Data(4, 8, 0, PermsNoGlobal), 1),
     cap_set_sealed(Data(4, 8, 0, CAP_PERMS_ALL), CAP_MAX_SEALED_OTYPE),
     cap_make_sealed_entry(Data(4, 8, 0, CAP_PERMS_ALL)),
     [Data(4, 8, 0, CAP_PERMS_ALL) EXCEPT !.tag = FALSE],
     [cap_set_sealed(Data(4, 8, 0, CAP_PERMS_ALL), 1) EXCEPT !.tag = FALSE],
     null_capability}

AuthorityCaps ==
    {Data(0, 4, 1, CAP_PERMS_ALL), Data(0, 4, 1, PermsNoGlobal),
     Data(0, 4, 1, PermsNoSeal), Data(0, 4, CAP_MAX_SEALED_OTYPE, CAP_PERMS_ALL),
     Data(0, 8, 4, CAP_PERMS_ALL), Data(0, 4, 4, CAP_PERMS_ALL),
     set_max_perms_capability(0),
     cap_set_sealed(Data(0, 4, 1, CAP_PERMS_ALL), 1),
     [Data(0, 4, 1, CAP_PERMS_ALL) EXCEPT !.tag = FALSE],
     MkCap(FALSE, 12, CAP_MAX_TOP, 0, PermsData, {}, CAP_OTYPE_UNSEALED),
     MkCap(FALSE, 6, 5, 0, PermsData, {}, CAP_OTYPE_SENTRY),
     null_capability}

DdcCaps ==
    {set_max_perms_capability(0), null_capability, Data(4, 8, 0, CAP_PERMS_ALL),
     Data(4, 12, 0, {CAP_PERM_GLOBAL, CAP_PERM_EXECUTE}),
     cap_set_sealed(Data(4, 8, 0, CAP_PERMS_ALL), 1)}

PccCaps == {set_max_perms_capability(4), Data(4, 8, 0, CAP_PERMS_ALL)}

\* PCC as an exception return leaves it when EPCC held a sealed capability:
\* its object type is not that of an unsealed capability.
ReturnedPccCaps ==
    {cap_set_sealed(Data(4, 8, 0, CAP_PERMS_ALL), 1),
     cap_make_sealed_entry(Data(4, 8, 0, CAP_PERMS_ALL))}

\* Operands of a domain crossing: a code capability and a data capability.
PermsCallData == PermsData \cup {CAP_PERM_CCALL}

CallCodeCaps ==
    {cap_set_sealed(Data(4, 8, 0, CAP_PERMS_ALL), 1),
     cap_set_sealed(Data(4, 8, 0, CAP_PERMS_ALL \ {CAP_PERM_EXECUTE}), 1),
     cap_set_sealed(Data(4, 8, 0, CAP_PERMS_ALL \ {CAP_PERM_CCALL}), 1),
     cap_set_sealed(Data(4, 8, 4, CAP_PERMS_ALL), 1),
     cap_set_sealed(Data(4, 8, 0, CAP_PERMS_ALL), 2),
     cap_make_sealed_entry(Data(4, 8, 0, CAP_PERMS_ALL)),
     Data(4, 8, 0, CAP_PERMS_ALL),
     [cap_set_sealed(Data(4, 8, 0, CAP_PERMS_ALL), 1) EXCEPT !.tag = FALSE]}

CallDataCaps ==
    {cap_set_sealed(Data(0, 4, 1, PermsCallData), 1),
     cap_set_sealed(Data(0, 4, 1, PermsCallData \ {CAP_PERM_GLOBAL}), 1),
     cap_set_sealed(Data(0, 4, 1, CAP_PERMS_ALL), 1),
     cap_set_sealed(Data(0, 4, 1, PermsData), 1),
     cap_set_sealed(Data(0, 4, 1, PermsCallData), 2),
     cap_make_sealed_entry(Data(0, 4, 1, PermsCallData)),
     Data(0, 4, 1, PermsCallData),
     [cap_set_sealed(Data(0, 4, 1, PermsCallData), 1) EXCEPT !.tag = FALSE]}

\* Operands of the comparisons: values that differ from the first one in one
\* field each, cursors on both sides of the sign bit, tops at and next to 2^64.
CompareCaps ==
    {Data(4, 8, 0, PermsData),
     [Data(4, 8, 0, PermsData) EXCEPT !.tag = FALSE],
     Data(0, 8, 4, PermsData),
     Data(4, 12, 0, PermsData),
     Data(4, 8, 1, PermsData),
     Data(4, 8, 0, {CAP_PERM_LOAD}),
     [Data(4, 8, 0, PermsData) EXCEPT !.uperms = {"U0"}],
     cap_set_sealed(Data(4, 8, 0, PermsData), 1),
     Data(8, 12, 4, PermsData),
     [Data(8, 12, 0, PermsData) EXCEPT !.tag = FALSE],
     Data(12, 15, 0, PermsData),
     Data(12, CAP_MAX_TOP, 0, PermsData),
     MkCap(FALSE, 0, 8, 0, PermsData, {}, CAP_OTYPE_UNSEALED),
     null_capability}

\* Values to store to memory and capabilities to reach memory through.
StoredCaps ==
    {Data(4, 8, 1, CAP_PERMS_ALL), Data(4, 8, 1, PermsNoGlobal),
     [Data(4, 8, 1, PermsNoGlobal) EXCEPT !.tag = FALSE],
     cap_set_sealed(Data(8, 12, 0, PermsNoGlobal), 1),
     set_max_perms_capability(9), Data(12, CAP_MAX_TOP, 2, PermsData),
     MkCap(FALSE, 6, 5, 0, PermsData, {}, CAP_OTYPE_SENTRY),
     null_capability}

MemBaseCaps ==
    {set_max_perms_capability(4),
     Data(0, CAP_MAX_TOP, 8, CAP_PERMS_ALL \ {CAP_PERM_STORE_LOCAL}),
     Data(0, CAP_MAX_TOP, 4, CAP_PERMS_ALL \ {CAP_PERM_STORE_CAP}),
     Data(0, CAP_MAX_TOP, 4, CAP_PERMS_ALL \ {CAP_PERM_LOAD_CAP}),
     Data(0, CAP_MAX_TOP, 4, CAP_PERMS_ALL \ {CAP_PERM_STORE}),
     Data(0, CAP_MAX_TOP, 4, CAP_PERMS_ALL \ {CAP_PERM_LOAD}),
     Data(0, CAP_MAX_TOP, 4, {CAP_PERM_LOAD}),
     Data(4, 8, 0, CAP_PERMS_ALL), Data(4, 6, 0, CAP_PERMS_ALL),
     Data(0, CAP_MAX_TOP, 5, CAP_PERMS_ALL),
     cap_set_sealed(Data(0, CAP_MAX_TOP, 4, CAP_PERMS_ALL), 1),
     [set_max_perms_capability(4) EXCEPT !.tag = FALSE]}

MemDdcCaps ==
    {set_max_perms_capability(0),
     Data(8, CAP_MAX_TOP, 0, CAP_PERMS_ALL \ {CAP_PERM_STORE_LOCAL})}

\* A hart whose kernel has filled the hardware registers, each with a value
\* of its own, running with or without ACCESS_SYS_REGS in PCC.
SysPccCaps ==
    {set_max_perms_capability(4),
     Data(0, CAP_MAX_TOP, 4, CAP_PERMS_ALL \ {CAP_ACCESS_SYS_REGS})}

SysHwr ==
    [h \in HwrNames |->
        CASE h = "UserTlsCap" -> Data(12, 16, 0, PermsData)
          [] h = "PrivTlsCap" -> Data(8, 12, 0, PermsData)
          [] h = "KR1C" -> Data(8, 12, 1, PermsData)
          [] h = "KR2C" -> Data(8, 12, 2, PermsData)
          [] h = "KCC" -> set_max_perms_capability(0)
          [] h = "KDC" -> set_max_perms_capability(1)
          [] h = "EPCC" -> set_max_perms_capability(8)
          [] h = "ErrorEPCC" -> set_max_perms_capability(12)
          [] OTHER -> null_capability]

\* Memory at the start: an all-zero line, a line holding a tagged capability,
\* a line holding a tagged capability without GLOBAL, and a line whose bytes
\* were written by integer stores.
InitMem ==
    [a \in MemLines |->
        CASE a = CHERI_CAP_SIZE ->
                 MemLine(TRUE, Data(4, 8, 0, CAP_PERMS_ALL), "reset")
          [] a = 2 * CHERI_CAP_SIZE ->
                 MemLine(TRUE, cap_set_sealed(Data(8, 12, 1, PermsNoGlobal), 1), "reset")
          [] a = 3 * CHERI_CAP_SIZE ->
                 MemLine(FALSE, Data(12, 16, 1, PermsData), "reset")
          [] OTHER -> MemLine(FALSE, null_capability, "reset")]

Scenario(r1, r2, ddc, pcc, c2e, dbg, kernel, linked) ==
    [r1 |-> r1, r2 |-> r2, ddc |-> ddc, pcc |-> pcc, c2e |-> c2e, dbg |-> dbg,
     kernel |-> kernel, linked |-> linked, sys |-> FALSE]

Scenarios ==
    {Scenario(r1, r2, set_max_perms_capability(0), set_max_perms_capability(4),
              FALSE, FALSE, TRUE, 1) : r1 \in SourceCaps, r2 \in AuthorityCaps}
    \cup
    {Scenario(r1, Data(0, 4, 1, CAP_PERMS_ALL), set_max_perms_capability(0), pcc,
              f[1], f[2], FALSE, 1) :
        r1 \in {Data(4, 8, 0, CAP_PERMS_ALL), set_max_perms_capability(1),
                cap_set_sealed(Data(4, 8, 0, CAP_PERMS_ALL), 1),
                [Data(4, 8, 0, CAP_PERMS_ALL) EXCEPT !.tag = FALSE]},
        pcc \in PccCaps,
        f \in {<<TRUE, FALSE>>, <<FALSE, TRUE>>, <<TRUE, TRUE>>}}
    \cup
    {Scenario(Data(4, 8, 0, CAP_PERMS_ALL), Data(0, 4, 1, CAP_PERMS_ALL), ddc, pcc,
              FALSE, FALSE, FALSE, linked) :
        ddc \in DdcCaps, pcc \in PccCaps, linked \in {0, 1}}
    \cup
    {Scenario(r1, r2, set_max_perms_capability(0), set_max_perms_capability(4),
              FALSE, FALSE, FALSE, 1) : r1 \in CallCodeCaps, r2 \in CallDataCaps}
    \cup
    {Scenario(r1, r2, set_max_perms_capability(0), set_max_perms_capability(4),
              FALSE, FALSE, FALSE, 1) : r1 \in CompareCaps, r2 \in CompareCaps}
    \cup
    {Scenario(r1, r2, ddc, set_max_perms_capability(4), FALSE, FALSE, FALSE, linked) :
        r1 \in StoredCaps, r2 \in MemBaseCaps, ddc \in MemDdcCaps, linked \in {0, 1}}
    \cup
    {[Scenario(r1, Data(0, 4, 1, CAP_PERMS_ALL), set_max_perms_capability(0), pcc,
               FALSE, FALSE, kernel, 1) EXCEPT !.sys = TRUE] :
        r1 \in {Data(4, 8, 0, CAP_PERMS_ALL), null_capability},
        pcc \in SysPccCaps, kernel \in BOOLEAN}

NoCause == [cause |-> "CP2Ca_NONE", reg |-> 0]

\* The hart state of a scenario: the hardware registers other than DDC hold
\* their reset values, nothing has been raised or counted yet.
InitEnv(sc) ==
    [cgpr |-> [r \in GPRegs |-> IF r = 1 THEN sc.r1
                                 ELSE IF r = 2 THEN sc.r2 ELSE null_capability],
     chwr |-> [h \in HwrNames |->
                 IF h = "DDC" THEN sc.ddc
                 ELSE IF sc.sys THEN SysHwr[h]
                 ELSE IF h \in {"KCC", "KDC", "EPCC", "ErrorEPCC"}
                      THEN set_max_perms_capability(0) ELSE null_capability],
     PCC |-> sc.pcc,
     CapBranchTarget |-> null_capability,
     CP2_CapCause |-> NoCause,
     CP0_BadVAddr |-> 0,
     exception_index |-> "EXCP_NONE",
     linkedflag |-> sc.linked,
     statcounters |-> [unrepresentable_caps |-> 0, imprecise_setbounds |-> 0,
                       icount |-> 0, icount_kernel |-> 0, icount_user |-> 0,
                       cap_read |-> 0, cap_read_tagged |-> 0,
                       cap_write |-> 0, cap_write_tagged |-> 0],
     kernel_mode |-> sc.kernel,
     c2e_on_unrepresentable |-> sc.c2e,
     debugger_on_unrepresentable |-> sc.dbg,
     mem |-> InitMem,
     TLB_L |-> FALSE,
     cpu |-> CpuReset(TRUE, HalfWord \div 2)]

NoOp(env) ==
    [op |-> "none", cd |-> 0, cb |-> 0, ct |-> 0, rt |-> 0, pre |-> env, ret |-> 0]

Install(env) ==
    /\ cgpr = env.cgpr
    /\ chwr = env.chwr
    /\ PCC = env.PCC
    /\ CapBranchTarget = env.CapBranchTarget
    /\ CP2_CapCause = env.CP2_CapCause
    /\ CP0_BadVAddr = env.CP0_BadVAddr
    /\ exception_index = env.exception_index
    /\ linkedflag = env.linkedflag
    /\ statcounters = env.statcounters
    /\ kernel_mode = env.kernel_mode
    /\ cheri_c2e_on_unrepresentable = env.c2e_on_unrepresentable
    /\ cheri_debugger_on_unrepresentable = env.debugger_on_unrepresentable
    /\ mem = env.mem
    /\ TLB_L = env.TLB_L
    /\ cpu = env.cpu

Init ==
    \E sc \in Scenarios :
        /\ Install(InitEnv(sc))
        /\ last = NoOp(InitEnv(sc))
        /\ prev = NoOp(InitEnv(sc))
        /\ steps = 0

\* ------------------------------------------------------- one instruction
\* The hart runs a helper only while no exception is pending: exception entry
\* is done by the CPU loop, not by these helpers.
Running(limit) == steps < limit /\ exception_index = "EXCP_NONE"

\* Commit the state a helper left, and remember the helper, its operands,
\* the state before it and the value it returned.
Commit(op, cd, cb, ct, rt, r) ==
    /\ cgpr' = r.env.cgpr
    /\ chwr' = r.env.chwr
    /\ PCC' = r.env.PCC
    /\ CapBranchTarget' = r.env.CapBranchTarget
    /\ CP2_CapCause' = r.env.CP2_CapCause
    /\ CP0_BadVAddr' = r.env.CP0_BadVAddr
    /\ exception_index' = r.env.exception_index
    /\ linkedflag' = r.env.linkedflag
    /\ statcounters' = r.env.statcounters
    /\ kernel_mode' = r.env.kernel_mode
    /\ cheri_c2e_on_unrepresentable' = r.env.c2e_on_unrepresentable
    /\ cheri_debugger_on_unrepresentable' = r.env.debugger_on_unrepresentable
    /\ mem' = r.env.mem
    /\ TLB_L' = r.env.TLB_L
    /\ cpu' = r.env.cpu
    /\ last' = [op |-> op, cd |-> cd, cb |-> cb, ct |-> ct, rt |-> rt,
                pre |-> Env, ret |-> r.ret]
    /\ prev' = last
    /\ steps' = steps + 1

\* ------------------------------------------------------- operands
Regs == {0, 1, 2}
IncOperands == {0, 1, 4, 8, Word - 1}
OffsetOperands == {0, 1, 4, 8}
AddrOperands == {4, 5, 12}
MaskOperands == {0, Word - 4, Word - 1}
LenOperands == {0, 3, 4, 5, 8}
PermOperands ==
    {[perms |-> CAP_PERMS_ALL, uperms |-> CAP_UPERMS_ALL, gap |-> FALSE, high |-> FALSE],
     [perms |-> PermsNoGlobal, uperms |-> {"U0"}, gap |-> FALSE, high |-> FALSE],
     [perms |-> {}, uperms |-> {}, gap |-> FALSE, high |-> FALSE],
     [perms |-> {CAP_PERM_LOAD}, uperms |-> {}, gap |-> TRUE, high |-> FALSE],
     [perms |-> {CAP_PERM_LOAD}, uperms |-> {}, gap |-> FALSE, high |-> TRUE]}
PcOperands == {4, 5, 8, Word - 2}
SizeOperands == {1, 4, 8}
ClearMasks == {0, 1, 2, 5, 6, 2 ^ CP2CAP_IDC, 2 ^ CP2CAP_IDC + 3, 2147483646, 2147483647}
IndexOperands == {0, 4}
ImmOperands == {-4, 0, 1}
HwrOperands == 0..31
CapImmOperands == {-CHERI_CAP_SIZE, 0, 1, CHERI_CAP_SIZE}
TagAddrOperands == {0, 2, 3, 6, 8}
TagLenOperands == {1, 2, 4, 8}

\* ------------------------------------------------------- actions
CAndPerm ==
    /\ Running(MaxSteps)
    /\ \E cd \in Regs, cb \in Regs, rt \in PermOperands :
        Commit("candperm", cd, cb, 0, rt, helper_candperm(Env, cd, cb, rt))

CCheckPerm ==
    /\ Running(MaxSteps)
    /\ \E cs \in Regs, rt \in PermOperands :
        Commit("ccheckperm", 0, cs, 0, rt, helper_ccheckperm(Env, cs, rt))

CClearTag ==
    /\ Running(MaxSteps)
    /\ \E cd \in Regs, cb \in Regs :
        Commit("ccleartag", cd, cb, 0, 0, helper_ccleartag(Env, cd, cb))

CFromPtr ==
    /\ Running(MaxSteps)
    /\ \E cd \in Regs, cb \in Regs, rt \in OffsetOperands :
        Commit("cfromptr", cd, cb, 0, rt, helper_cfromptr(Env, cd, cb, rt))

CGetPCC ==
    /\ Running(MaxSteps)
    /\ \E cd \in Regs :
        Commit("cgetpcc", cd, 0, 0, 0, helper_cgetpcc(Env, cd))

CGetPCCSetOffset ==
    /\ Running(MaxSteps)
    /\ \E cd \in Regs, rs \in OffsetOperands :
        Commit("cgetpccsetoffset", cd, 0, 0, rs, helper_cgetpccsetoffset(Env, cd, rs))

CIncBase ==
    /\ Running(MaxSteps)
    /\ \E cd \in Regs, cb \in Regs :
        Commit("cincbase", cd, cb, 0, 1, helper_cincbase(Env, cd, cb, 1))

CSetLen ==
    /\ Running(MaxSteps)
    /\ \E cd \in Regs, cb \in Regs :
        Commit("csetlen", cd, cb, 0, 1, helper_csetlen(Env, cd, cb, 1))

CIncOffset ==
    /\ Running(MaxSteps)
    /\ \E cd \in Regs, cb \in Regs, rt \in IncOperands :
        Commit("cincoffset", cd, cb, 0, rt, helper_cincoffset(Env, cd, cb, rt))

CSetAddr ==
    /\ Running(MaxSteps)
    /\ \E cd \in Regs, cb \in Regs, rt \in AddrOperands :
        Commit("csetaddr", cd, cb, 0, rt, helper_csetaddr(Env, cd, cb, rt))

CAndAddr ==
    /\ Running(MaxSteps)
    /\ \E cd \in Regs, cb \in Regs, rt \in MaskOperands :
        Commit("candaddr", cd, cb, 0, rt, helper_candaddr(Env, cd, cb, rt))

CSetOffset ==
    /\ Running(MaxSteps)
    /\ \E cd \in Regs, cb \in Regs, rt \in OffsetOperands :
        Commit("csetoffset", cd, cb, 0, rt, helper_csetoffset(Env, cd, cb, rt))

CMovz ==
    /\ Running(MaxSteps)
    /\ \E cd \in Regs, cs \in Regs, rs \in {0, 1} :
        Commit("cmovz", cd, cs, 0, rs, helper_cmovz(Env, cd, cs, rs))

CMovn ==
    /\ Running(MaxSteps)
    /\ \E cd \in Regs, cs \in Regs, rs \in {0, 1} :
        Commit("cmovn", cd, cs, 0, rs, helper_cmovn(Env, cd, cs, rs))

CJalr ==
    /\ Running(MaxSteps)
    /\ \E cd \in Regs, cb \in Regs :
        Commit("cjalr", cd, cb, 0, 0, helper_cjalr(Env, cd, cb))

CJr ==
    /\ Running(MaxSteps)
    /\ \E cb \in Regs :
        Commit("cjr", 0, cb, 0, 0, helper_cjr(Env, cb))

CSeal ==
    /\ Running(MaxSteps)
    /\ \E cd \in Regs, cs \in Regs, ct \in Regs :
        Commit("cseal", cd, cs, ct, 0, helper_cseal(Env, cd, cs, ct))

CCSeal ==
    /\ Running(MaxSteps)
    /\ \E cd \in Regs, cs \in Regs, ct \in Regs :
        Commit("ccseal", cd, cs, ct, 0, helper_ccseal(Env, cd, cs, ct))

CSealEntry ==
    /\ Running(MaxSteps)
    /\ \E cd \in Regs, cs \in Regs :
        Commit("csealentry", cd, cs, 0, 0, helper_csealentry(Env, cd, cs))

CUnseal ==
    /\ Running(MaxSteps)
    /\ \E cd \in Regs, cs \in Regs, ct \in Regs :
        Commit("cunseal", cd, cs, ct, 0, helper_cunseal(Env, cd, cs, ct))

CBuildCap ==
    /\ Running(MaxSteps)
    /\ \E cd \in Regs, cb \in Regs, ct \in Regs :
        Commit("cbuildcap", cd, cb, ct, 0, helper_cbuildcap(Env, cd, cb, ct))

CCopyType ==
    /\ Running(MaxSteps)
    /\ \E cd \in Regs, cb \in Regs, ct \in Regs :
        Commit("ccopytype", cd, cb, ct, 0, helper_ccopytype(Env, cd, cb, ct))

CSetBounds ==
    /\ Running(MaxSteps)
    /\ \E cd \in Regs, cb \in Regs, rt \in LenOperands :
        Commit("csetbounds", cd, cb, 0, rt, helper_csetbounds(Env, cd, cb, rt))

CSetBoundsExact ==
    /\ Running(MaxSteps)
    /\ \E cd \in Regs, cb \in Regs, rt \in LenOperands :
        Commit("csetboundsexact", cd, cb, 0, rt,
               helper_csetboundsexact(Env, cd, cb, rt))

CToPtr ==
    /\ Running(MaxSteps)
    /\ \E cb \in Regs, ct \in Regs :
        Commit("ctoptr", 0, cb, ct, 0, helper_ctoptr(Env, cb, ct))

CLoadLinked ==
    /\ Running(MaxSteps)
    /\ \E cb \in Regs, size \in SizeOperands :
        Commit("cloadlinked", 0, cb, 0, size, helper_cloadlinked(Env, cb, size))

CCheckBtarget ==
    /\ Running(MaxSteps)
    /\ \E btarget \in PcOperands :
        Commit("ccheck_btarget", 0, 0, 0, btarget, helper_ccheck_btarget(Env, btarget))

CCheckPc ==
    /\ Running(MaxSteps)
    /\ \E next_pc \in PcOperands :
        Commit("ccheck_pc", 0, 0, 0, next_pc, helper_ccheck_pc(Env, next_pc))

CCheckStore ==
    /\ Running(MaxSteps)
    /\ \E offset \in PcOperands, len \in SizeOperands :
        Commit("ccheck_store", 0, 0, len, offset, helper_ccheck_store(Env, offset, len))

CCheckLoad ==
    /\ Running(MaxSteps)
    /\ \E offset \in PcOperands, len \in SizeOperands :
        Commit("ccheck_load", 0, 0, len, offset, helper_ccheck_load(Env, offset, len))

CCheckStoreRight ==
    /\ Running(MaxSteps)
    /\ \E offset \in PcOperands, len \in {4, 8} :
        Commit("ccheck_store_right", 0, 0, len, offset,
               helper_ccheck_store_right(Env, offset, len))

CCheckLoadRight ==
    /\ Running(MaxSteps)
    /\ \E offset \in PcOperands, len \in {4, 8} :
        Commit("ccheck_load_right", 0, 0, len, offset,
               helper_ccheck_load_right(Env, offset, len))

CBez ==
    /\ Running(MaxSteps)
    /\ \E cb \in Regs :
        Commit("cbez", 0, cb, 0, 0, helper_cbez(Env, cb))

CBnz ==
    /\ Running(MaxSteps)
    /\ \E cb \in Regs :
        Commit("cbnz", 0, cb, 0, 0, helper_cbnz(Env, cb))

CBts ==
    /\ Running(MaxSteps)
    /\ \E cb \in Regs :
        Commit("cbts", 0, cb, 0, 0, helper_cbts(Env, cb))

CBtu ==
    /\ Running(MaxSteps)
    /\ \E cb \in Regs :
        Commit("cbtu", 0, cb, 0, 0, helper_cbtu(Env, cb))

\* In the record of a call, cb holds the index cs and ct the index cb.
\* The operands of a call: IDC, which the call writes, is among them.
CallRegs == Regs \cup {CP2CAP_IDC}

CCall ==
    /\ Running(MaxSteps)
    /\ \E cs \in CallRegs, cb \in CallRegs :
        Commit("ccall", 0, cs, cb, 0, helper_ccall(Env, cs, cb))

CCallNotrap ==
    /\ Running(MaxSteps)
    /\ \E cs \in CallRegs, cb \in CallRegs :
        Commit("ccall_notrap", 0, cs, cb, 0, helper_ccall_notrap(Env, cs, cb))

CReturn ==
    /\ Running(MaxSteps)
    /\ Commit("creturn", 0, 0, 0, 0, helper_creturn(Env))

CClearReg ==
    /\ Running(MaxSteps)
    /\ \E mask \in ClearMasks :
        Commit("cclearreg", 0, 0, 0, mask, helper_cclearreg(Env, mask))

CEq ==
    /\ Running(MaxSteps)
    /\ \E cb \in Regs, ct \in Regs :
        Commit("ceq", 0, cb, ct, 0, helper_ceq(Env, cb, ct))

CNe ==
    /\ Running(MaxSteps)
    /\ \E cb \in Regs, ct \in Regs :
        Commit("cne", 0, cb, ct, 0, helper_cne(Env, cb, ct))

CLt ==
    /\ Running(MaxSteps)
    /\ \E cb \in Regs, ct \in Regs :
        Commit("clt", 0, cb, ct, 0, helper_clt(Env, cb, ct))

CLe ==
    /\ Running(MaxSteps)
    /\ \E cb \in Regs, ct \in Regs :
        Commit("cle", 0, cb, ct, 0, helper_cle(Env, cb, ct))

CLtu ==
    /\ Running(MaxSteps)
    /\ \E cb \in Regs, ct \in Regs :
        Commit("cltu", 0, cb, ct, 0, helper_cltu(Env, cb, ct))

CLeu ==
    /\ Running(MaxSteps)
    /\ \E cb \in Regs, ct \in Regs :
        Commit("cleu", 0, cb, ct, 0, helper_cleu(Env, cb, ct))

CExEq ==
    /\ Running(MaxSteps)
    /\ \E cb \in Regs, ct \in Regs :
        Commit("cexeq", 0, cb, ct, 0, helper_cexeq(Env, cb, ct))

CNExEq ==
    /\ Running(MaxSteps)
    /\ \E cb \in Regs, ct \in Regs :
        Commit("cnexeq", 0, cb, ct, 0, helper_cnexeq(Env, cb, ct))

CTestSubset ==
    /\ Running(MaxSteps)
    /\ \E cb \in Regs, ct \in Regs :
        Commit("ctestsubset", 0, cb, ct, 0, helper_ctestsubset(Env, cb, ct))

\* In the record of a load or store, ct holds the size and rt the pair of
\* the index register's value and the immediate.
CLoad ==
    /\ Running(MaxSteps)
    /\ \E cb \in Regs, rt \in IndexOperands, offset \in ImmOperands, size \in SizeOperands :
        Commit("cload", 0, cb, size, <<rt, offset>>,
               helper_cload(Env, cb, rt, offset, size))

CStore ==
    /\ Running(MaxSteps)
    /\ \E cb \in Regs, rt \in IndexOperands, offset \in ImmOperands, size \in SizeOperands :
        Commit("cstore", 0, cb, size, <<rt, offset>>,
               helper_cstore(Env, cb, rt, offset, size))

\* In the record of a hardware register access rt holds the register's number.
CReadHwr ==
    /\ Running(MaxSteps)
    /\ \E cd \in Regs, hwr \in HwrOperands :
        Commit("creadhwr", cd, 0, 0, hwr, helper_creadhwr(Env, cd, hwr))

CWriteHwr ==
    /\ Running(MaxSteps)
    /\ \E cs \in Regs, hwr \in HwrOperands :
        Commit("cwritehwr", 0, cs, 0, hwr, helper_cwritehwr(Env, cs, hwr))

Mtc0Epc ==
    /\ Running(MaxSteps)
    /\ \E arg \in AddrOperands :
        Commit("mtc0_epc", 0, 0, 0, arg, helper_mtc0_epc(Env, arg))

Mtc0ErrorEpc ==
    /\ Running(MaxSteps)
    /\ \E arg \in AddrOperands :
        Commit("mtc0_error_epc", 0, 0, 0, arg, helper_mtc0_error_epc(Env, arg))

\* In the record of a capability load ct holds the load-inhibit flag of the
\* translation; in the record of a capability store ct holds cs.
CLC ==
    /\ Running(MaxSteps)
    /\ \E cd \in Regs, cb \in Regs, rt \in IndexOperands,
          offset \in CapImmOperands, tlb_l \in BOOLEAN :
        Commit("clc", cd, cb, tlb_l, <<rt, offset>>,
               helper_clc_without_tcg(Env, cd, cb, rt, offset, tlb_l))

CLLC ==
    /\ Running(MaxSteps)
    /\ \E cd \in Regs, cb \in Regs, tlb_l \in BOOLEAN :
        Commit("cllc", cd, cb, tlb_l, <<0, 0>>,
               helper_cllc_without_tcg(Env, cd, cb, tlb_l))

CSC ==
    /\ Running(MaxSteps)
    /\ \E cs \in Regs, cb \in Regs, rt \in IndexOperands, offset \in CapImmOperands :
        Commit("csc", 0, cb, cs, <<rt, offset>>,
               helper_csc_without_tcg(Env, cs, cb, rt, offset))

CSCC ==
    /\ Running(MaxSteps)
    /\ \E cs \in Regs, cb \in Regs :
        Commit("cscc", 0, cb, cs, <<0, 0>>, helper_cscc_without_tcg(Env, cs, cb))

CStoreCond ==
    /\ Running(MaxSteps)
    /\ \E cb \in Regs, size \in SizeOperands :
        Commit("cstorecond", 0, cb, size, <<0, 0>>, helper_cstorecond(Env, cb, size))

CLoadTags ==
    /\ Running(MaxSteps)
    /\ \E cb \in Regs, cbcursor \in TagAddrOperands :
        Commit("cloadtags", 0, cb, 0, cbcursor, helper_cloadtags(Env, cb, cbcursor))

\* In the record of a tag invalidation ct holds the length and rt the address.
CInvalidateTag ==
    /\ Running(MaxSteps)
    /\ \E addr \in TagAddrOperands, len \in TagLenOperands :
        Commit("cinvalidate_tag", 0, 0, len, addr,
               helper_cinvalidate_tag(Env, addr, len))

CInvalidateTag32 ==
    /\ Running(MaxSteps)
    /\ \E addr \in TagAddrOperands, len \in TagLenOperands :
        Commit("cinvalidate_tag32", 0, 0, len, addr,
               helper_cinvalidate_tag32(Env, addr, len))

CInvalidateTagLeftRight ==
    /\ Running(MaxSteps)
    /\ \E addr \in TagAddrOperands, len \in TagLenOperands :
        Commit("cinvalidate_tag_left_right", 0, 0, len, addr,
               helper_cinvalidate_tag_left_right(Env, addr, len))

Next ==
    \/ CAndPerm \/ CCheckPerm \/ CClearTag \/ CFromPtr \/ CGetPCC \/ CGetPCCSetOffset
    \/ CIncBase \/ CSetLen \/ CIncOffset \/ CSetAddr \/ CAndAddr \/ CSetOffset
    \/ CMovz \/ CMovn \/ CJalr \/ CJr \/ CSeal \/ CCSeal \/ CSealEntry
    \/ CUnseal \/ CBuildCap \/ CCopyType \/ CSetBounds \/ CSetBoundsExact
    \/ CToPtr \/ CLoadLinked \/ CCheckBtarget \/ CCheckPc \/ CCheckStore
    \/ CCheckLoad \/ CCheckStoreRight \/ CCheckLoadRight
    \/ CBez \/ CBnz \/ CBts \/ CBtu \/ CCall \/ CCallNotrap \/ CReturn
    \/ CClearReg \/ CEq \/ CNe \/ CLt \/ CLe \/ CLtu \/ CLeu \/ CExEq \/ CNExEq
    \/ CTestSubset \/ CLoad \/ CStore
    \/ CReadHwr \/ CWriteHwr \/ Mtc0Epc \/ Mtc0ErrorEpc \/ CLC \/ CLLC \/ CSC \/ CSCC \/ CStoreCond
    \/ CLoadTags \/ CInvalidateTag \/ CInvalidateTag32 \/ CInvalidateTagLeftRight

Spec == Init /\ [][Next]_vars

\* ------------------------------------------------------- instruction pairs
\* The same helpers, two in a row, for the laws that relate one instruction
\* to the one before it.
SeqCIncOffset ==
    /\ Running(MaxSeqSteps)
    /\ \E cd \in Regs, cb \in Regs, rt \in IncOperands :
        Commit("cincoffset", cd, cb, 0, rt, helper_cincoffset(Env, cd, cb, rt))

SeqCSeal ==
    /\ Running(MaxSeqSteps)
    /\ \E cd \in Regs, cs \in Regs, ct \in Regs :
        Commit("cseal", cd, cs, ct, 0, helper_cseal(Env, cd, cs, ct))

SeqCUnseal ==
    /\ Running(MaxSeqSteps)
    /\ \E cd \in Regs, cs \in Regs, ct \in Regs :
        Commit("cunseal", cd, cs, ct, 0, helper_cunseal(Env, cd, cs, ct))

NextSeq == SeqCIncOffset \/ SeqCSeal \/ SeqCUnseal

SpecSeq == Init /\ [][NextSeq]_vars

\* ------------------------------------------------------- stores and loads
\* Capability stores, integer stores and capability loads, three in a row,
\* for the laws that relate what a load delivers to the stores before it.
MemScenarios ==
    {Scenario(r1, r2, set_max_perms_capability(0), set_max_perms_capability(4),
              FALSE, FALSE, FALSE, 1) :
        r1 \in StoredCaps,
        r2 \in {set_max_perms_capability(4),
                Data(0, CAP_MAX_TOP, 8, CAP_PERMS_ALL \ {CAP_PERM_STORE_LOCAL}),
                Data(0, CAP_MAX_TOP, 4, CAP_PERMS_ALL \ {CAP_PERM_LOAD_CAP})}}

InitStores ==
    \E sc \in MemScenarios :
        /\ Install(InitEnv(sc))
        /\ last = NoOp(InitEnv(sc))
        /\ prev = NoOp(InitEnv(sc))
        /\ steps = 0

\* The words an integer store writes: those of an encoded capability.
DataOperands ==
    {[pesbt |-> compress_128cap(c), cursor |-> cap_get_cursor(c)] :
        c \in {null_capability, Data(8, 12, 3, PermsData)}}

\* Integer stores are of whole words, a word being half a line.
StoreOffsets == {i * (CHERI_CAP_SIZE \div 2) : i \in 1..4}
StoreLengths == {i * (CHERI_CAP_SIZE \div 2) : i \in {1, 2, 4}}

MemCSC ==
    /\ Running(MaxMemSteps)
    /\ \E cs \in Regs, cb \in {0, 2}, rt \in IndexOperands :
        Commit("csc", 0, cb, cs, <<rt, 0>>,
               helper_csc_without_tcg(Env, cs, cb, rt, 0))

MemCLC ==
    /\ Running(MaxMemSteps)
    /\ \E cb \in {0, 2}, rt \in IndexOperands, tlb_l \in BOOLEAN :
        Commit("clc", 1, cb, tlb_l, <<rt, 0>>,
               helper_clc_without_tcg(Env, 1, cb, rt, 0, tlb_l))

\* In the record of an integer store ct holds the length and rt the pair of
\* the offset and the value.
MemStore ==
    /\ Running(MaxMemSteps)
    /\ \E offset \in StoreOffsets, len \in StoreLengths, value \in DataOperands :
        Commit("sd", 0, 0, len, <<offset, value>>,
               store_via_ddc(Env, offset, len, value))

NextMem == MemCSC \/ MemCLC \/ MemStore

SpecMem == InitStores /\ [][NextMem]_vars

\* ------------------------------------ the store of a capability, by statement
\* store_cap_to_memory is three writes in a row: the tag update and the two
\* data words.  Here each is a step of its own, so that the states between
\* them and the state a fault leaves can be looked at.  Touching the tags
\* takes every fault of the store; the data stores take none after it.
MaxStoreSteps == 6

StoreStatements == {"store_cap_to_memory:tag", "store_cap_to_memory:pesbt",
                    "store_cap_to_memory:cursor"}

\* The tag update of the store, held back by a fault of the translation.
store_cap_tag_update(env, csp, vaddr, fault) ==
    IF fault THEN do_raise_c0_exception(env, "EXCP_TLBS", vaddr)
    ELSE Ret(IF csp.tag THEN cheri_tag_set(env, vaddr)
             ELSE cheri_tag_invalidate(env, vaddr, CHERI_CAP_SIZE), 0)

store_cap_to_memory_statement_data_first(env, cs, vaddr, k, fault) ==
    LET csp == get_readonly_capreg(env, cs)
        pesbt == IF csp.tag THEN compress_128cap(csp)
                 ELSE cr_pesbt_xored_for_mem(csp)
    IN  CASE k = 0 ->
                 Ret([env EXCEPT
                          !.statcounters.cap_write = @ + 1,
                          !.statcounters.cap_write_tagged =
                              IF csp.tag THEN @ + 1 ELSE @,
                          !.mem[LineOf(vaddr)].pesbt = pesbt], 0)
          [] k = 1 ->
                 Ret([env EXCEPT !.mem[LineOf(vaddr)].cursor = cap_get_cursor(csp),
                                 !.mem[LineOf(vaddr)].by = "csc"], 0)
          [] OTHER -> store_cap_tag_update(env, csp, vaddr, fault)

\* Statement k of store_cap_to_memory: 0 counts the store and updates the tag,
\* 1 writes the pesbt word and 2 the cursor word.
store_cap_to_memory_statement(env, cs, vaddr, k, fault) ==
    LET csp == get_readonly_capreg(env, cs)
        pesbt == IF csp.tag THEN compress_128cap(csp)
                 ELSE cr_pesbt_xored_for_mem(csp)
        counted == [env EXCEPT
                        !.statcounters.cap_write = @ + 1,
                        !.statcounters.cap_write_tagged =
                            IF csp.tag THEN @ + 1 ELSE @]
    IN  CASE k = 0 -> store_cap_tag_update(counted, csp, vaddr, fault)
          [] k = 1 -> Ret([env EXCEPT !.mem[LineOf(vaddr)].pesbt = pesbt], 0)
          [] OTHER ->
                 Ret([env EXCEPT !.mem[LineOf(vaddr)].cursor = cap_get_cursor(csp),
                                 !.mem[LineOf(vaddr)].by = "csc"], 0)

\* A step inside an instruction: the record of the instruction keeps its
\* operands and the state before it, and op tells the statement reached.
Statement(op, r) ==
    /\ cgpr' = r.env.cgpr
    /\ chwr' = r.env.chwr
    /\ PCC' = r.env.PCC
    /\ CapBranchTarget' = r.env.CapBranchTarget
    /\ CP2_CapCause' = r.env.CP2_CapCause
    /\ CP0_BadVAddr' = r.env.CP0_BadVAddr
    /\ exception_index' = r.env.exception_index
    /\ linkedflag' = r.env.linkedflag
    /\ statcounters' = r.env.statcounters
    /\ kernel_mode' = r.env.kernel_mode
    /\ cheri_c2e_on_unrepresentable' = r.env.c2e_on_unrepresentable
    /\ cheri_debugger_on_unrepresentable' = r.env.debugger_on_unrepresentable
    /\ mem' = r.env.mem
    /\ TLB_L' = r.env.TLB_L
    /\ cpu' = r.env.cpu
    /\ last' = [last EXCEPT !.op = op, !.ret = r.ret]
    /\ prev' = prev
    /\ steps' = steps + 1

\* csc up to the tag update: the checks of the address, then statement 0.
\* In the record ct holds cs and rt the address of the store.
StoreCapTag ==
    /\ Running(MaxStoreSteps)
    /\ last.op \notin {"store_cap_to_memory:tag", "store_cap_to_memory:pesbt"}
    /\ \E cs \in Regs, cb \in {0, 2}, rt \in IndexOperands, fault \in BOOLEAN :
        LET vaddr == get_csc_addr(Env, cs, cb, rt, 0)
            r == store_cap_to_memory_statement(vaddr.env, cs, vaddr.ret, 0, fault)
        IN  IF Raised(vaddr)
            THEN /\ ~fault
                 /\ Commit("csc", 0, cb, cs, <<rt, 0>>, vaddr)
            ELSE Commit(IF fault THEN "store_cap_to_memory:fault"
                        ELSE "store_cap_to_memory:tag",
                        0, cb, cs, vaddr.ret, r)

StoreCapPesbt ==
    /\ Running(MaxStoreSteps)
    /\ last.op = "store_cap_to_memory:tag"
    /\ \E fault \in BOOLEAN :
        LET r == store_cap_to_memory_statement(Env, last.ct, last.rt, 1, fault)
        IN  Statement(IF Raised(r) THEN "store_cap_to_memory:fault"
                      ELSE "store_cap_to_memory:pesbt", r)

StoreCapCursor ==
    /\ Running(MaxStoreSteps)
    /\ last.op = "store_cap_to_memory:pesbt"
    /\ \E fault \in BOOLEAN :
        LET r == store_cap_to_memory_statement(Env, last.ct, last.rt, 2, fault)
        IN  Statement(IF Raised(r) THEN "store_cap_to_memory:fault"
                      ELSE "store_cap_to_memory:cursor", r)

NextStore == StoreCapTag \/ StoreCapPesbt \/ StoreCapCursor

SpecStore == InitStores /\ [][NextStore]_vars

\* ------------------------------------------------------- calls
\* Jumps and calls from the states of a call in which IDC already holds a
\* capability, as it does after an earlier call or a move into c26.
CallScenarios ==
    {Scenario(r1, r2, set_max_perms_capability(0), set_max_perms_capability(4),
              FALSE, FALSE, FALSE, 1) : r1 \in CallCodeCaps, r2 \in CallDataCaps}

InitCalls ==
    \E sc \in CallScenarios, idc \in CallCodeCaps \cup {null_capability} :
        LET env == [InitEnv(sc) EXCEPT !.cgpr[CP2CAP_IDC] = idc]
        IN  /\ Install(env)
            /\ last = NoOp(env)
            /\ prev = NoOp(env)
            /\ steps = 0

NextCalls == CJr \/ CJalr \/ CCall \/ CCallNotrap

SpecCalls == InitCalls /\ [][NextCalls]_vars

\* ------------------------------------------------------- linked accesses
\* Load-linked and store-conditional in a row.  An exception does not end
\* the run here: it is delivered, and the next instruction is the first of
\* the handler.  The load of cllc, like every access of memory, may trap
\* after the checks of the address have passed.
MaxLinkSteps == 2

LinkScenarios ==
    {Scenario(r1, r2, set_max_perms_capability(0), set_max_perms_capability(4),
              FALSE, FALSE, FALSE, linked) :
        r1 \in {Data(4, 8, 1, CAP_PERMS_ALL), null_capability},
        r2 \in MemBaseCaps, linked \in {0, 1}}

InitLinks ==
    \E sc \in LinkScenarios :
        /\ Install(InitEnv(sc))
        /\ last = NoOp(InitEnv(sc))
        /\ prev = NoOp(InitEnv(sc))
        /\ steps = 0

\* The hart once a raised exception has been delivered.
Resumed(env) == [env EXCEPT !.exception_index = "EXCP_NONE"]

\* cllc with the trap of its load: get_cllc_addr has run by then.
helper_cllc_trapping(env, cd, cb, tlb_l, trap) ==
    LET vaddr == get_cllc_addr(env, cd, cb)
    IN  IF Raised(vaddr) THEN vaddr
        ELSE IF trap THEN do_raise_c0_exception(vaddr.env, "EXCP_TLBL", vaddr.ret)
        ELSE load_cap_from_memory(vaddr.env, cd, cb, vaddr.ret, tlb_l)

LinkCLoadLinked ==
    /\ steps < MaxLinkSteps
    /\ \E cb \in {0, 2}, size \in SizeOperands :
        Commit("cloadlinked", 0, cb, 0, size,
               helper_cloadlinked(Resumed(Env), cb, size))

\* In the record ct holds the load-inhibit flag and rt the size of the load.
LinkCLLC ==
    /\ steps < MaxLinkSteps
    /\ \E cb \in {0, 2}, tlb_l \in BOOLEAN, trap \in BOOLEAN :
        Commit("cllc", 1, cb, tlb_l, CHERI_CAP_SIZE,
               helper_cllc_trapping(Resumed(Env), 1, cb, tlb_l, trap))

LinkCSCC ==
    /\ steps < MaxLinkSteps
    /\ \E cs \in {1, 2}, cb \in {0, 2} :
        Commit("cscc", 0, cb, cs, 0, helper_cscc_without_tcg(Resumed(Env), cs, cb))

NextLinks == LinkCLoadLinked \/ LinkCLLC \/ LinkCSCC

SpecLinks == InitLinks /\ [][NextLinks]_vars

\* ------------------------------------------------------- checks
\* The checks and the integer accesses alone, from the states above and from
\* states where an exception return has left a sealed capability in PCC.
\* The PC check stops every instruction in such a state; the other helpers
\* are run in it all the same, to see what they do about PCC's object type.
CheckScenarios ==
    Scenarios \cup
    {Scenario(Data(4, 8, 0, CAP_PERMS_ALL), Data(0, 4, 1, CAP_PERMS_ALL),
              set_max_perms_capability(0), pcc, FALSE, FALSE, kernel, 1) :
        pcc \in ReturnedPccCaps, kernel \in BOOLEAN}

InitChecks ==
    \E sc \in CheckScenarios :
        /\ Install(InitEnv(sc))
        /\ last = NoOp(InitEnv(sc))
        /\ prev = NoOp(InitEnv(sc))
        /\ steps = 0

NextChecks ==
    \/ CCheckPc \/ CCheckBtarget \/ CCheckLoad \/ CCheckStore
    \/ CCheckLoadRight \/ CCheckStoreRight \/ CLoad \/ CStore

SpecChecks == InitChecks /\ [][NextChecks]_vars

\* ------------------------------------------------------- PC checks
\* The PC check of one instruction after another.  An exception is
\* delivered before the next check, and the mode of the hart, which CP0
\* decides, may change between two checks.
MaxPcSteps == 3

PcCCheckPc ==
    /\ steps < MaxPcSteps
    /\ \E next_pc \in PcOperands :
        Commit("ccheck_pc", 0, 0, 0, next_pc,
               helper_ccheck_pc(Resumed(Env), next_pc))

PcModeSwitch ==
    /\ steps < MaxPcSteps
    /\ Commit("mode", 0, 0, 0, 0,
              Ret([Resumed(Env) EXCEPT !.kernel_mode = ~@], 0))

NextPc == PcCCheckPc \/ PcModeSwitch

SpecPc == InitChecks /\ [][NextPc]_vars

\* ------------------------------------------------------- debugger sessions
\* Two requests of a debugger in a row.  In the record of a request rt holds
\* the register index, ct the buffer handed in and ret the count returned
\* with the buffer handed back.
GdbOps ==
    {"gdb_read_register", "gdb_write_register", "gdb_get_sys_reg",
     "gdb_set_sys_reg", "gdb_get_cheri_reg", "gdb_set_cheri_reg"}
GdbIndexes == {0, 1, 31, 32, 33, 34, 35, 36, 37, 38, 69, 70, 71, 72, 73, 80}
GdbValues == {0, 1, 5, Word - 2, Word - 1}
GdbCapIndexes == GPRegs \cup 32..44
GdbCapBufs ==
    {<<compress_128cap(c), cap_get_cursor(c)>> :
        c \in {null_capability, Data(4, 8, 1, CAP_PERMS_ALL)}}
GdbBuf == IF last.op \in GdbOps THEN last.ret.mem_buf ELSE 0

GdbScenarios ==
    {Scenario(r1, Data(4, 8, 1, PermsData), set_max_perms_capability(0),
              set_max_perms_capability(4), FALSE, FALSE, kernel, 0) :
        r1 \in {null_capability, set_max_perms_capability(4)},
        kernel \in BOOLEAN}

InitGdb ==
    \E sc \in GdbScenarios, fp \in BOOLEAN, status \in {0, 1, 2 ^ CP0St_FR} :
        LET env == [InitEnv(sc) EXCEPT !.cpu = CpuReset(fp, status)]
        IN  /\ Install(env)
            /\ last = NoOp(env)
            /\ prev = NoOp(env)
            /\ steps = 0

GdbReadRegister ==
    /\ Running(MaxGdbSteps)
    /\ \E n \in GdbIndexes :
        Commit("gdb_read_register", 0, 0, GdbBuf, n,
               mips_cpu_gdb_read_register(Env, GdbBuf, n))

GdbWriteRegister ==
    /\ Running(MaxGdbSteps)
    /\ \E n \in GdbIndexes, mem_buf \in GdbValues :
        Commit("gdb_write_register", 0, 0, mem_buf, n,
               mips_cpu_gdb_write_register(Env, mem_buf, n))

GdbGetSysReg ==
    /\ Running(MaxGdbSteps)
    /\ \E n \in {0, 1} :
        Commit("gdb_get_sys_reg", 0, 0, GdbBuf, n,
               mips_gdb_get_sys_reg(Env, GdbBuf, n))

GdbSetSysReg ==
    /\ Running(MaxGdbSteps)
    /\ \E n \in {0, 1}, mem_buf \in GdbValues :
        Commit("gdb_set_sys_reg", 0, 0, mem_buf, n,
               mips_gdb_set_sys_reg(Env, mem_buf, n))

GdbGetCheriReg ==
    /\ Running(MaxGdbSteps)
    /\ \E n \in GdbCapIndexes :
        Commit("gdb_get_cheri_reg", 0, 0, GdbBuf, n,
               mips_gdb_get_cheri_reg(Env, GdbBuf, n))

GdbSetCheriReg ==
    /\ Running(MaxGdbSteps)
    /\ \E n \in GdbCapIndexes, mem_buf \in GdbCapBufs :
        Commit("gdb_set_cheri_reg", 0, 0, mem_buf, n,
               mips_gdb_set_cheri_reg(Env, mem_buf, n))

NextGdb ==
    \/ GdbReadRegister \/ GdbWriteRegister \/ GdbGetSysReg \/ GdbSetSysReg
    \/ GdbGetCheriReg \/ GdbSetCheriReg

SpecGdb == InitGdb /\ [][NextGdb]_vars

\* ------------------------------------------------------- properties
Pre == last.pre
Succeeded == exception_index = "EXCP_NONE"
RegistersKept ==
    /\ cgpr = Pre.cgpr
    /\ chwr = Pre.chwr
    /\ CapBranchTarget = Pre.CapBranchTarget

\* ---- C1 ----------------------------------------------------------------
CheckOps == {"ccheck_pc", "ccheck_btarget", "ccheck_load", "ccheck_store"}
DdcOps == {"ccheck_load", "ccheck_store"}
C1_Cap == IF last.op \in DdcOps THEN Pre.chwr["DDC"] ELSE Pre.PCC
C1_Perm ==
    IF last.op = "ccheck_load" THEN CAP_PERM_LOAD
    ELSE IF last.op = "ccheck_store" THEN CAP_PERM_STORE ELSE CAP_PERM_EXECUTE
C1_PermCause ==
    IF last.op = "ccheck_load" THEN "CP2Ca_PERM_LD"
    ELSE IF last.op = "ccheck_store" THEN "CP2Ca_PERM_ST" ELSE "CP2Ca_PERM_EXE"
C1_Addr ==
    IF last.op \in DdcOps THEN (last.rt + C1_Cap.base + C1_Cap.offset) % Word
    ELSE last.rt
C1_Len == IF last.op \in DdcOps THEN last.ct ELSE 4
C1_FirstFailing ==
    IF ~C1_Cap.tag THEN "CP2Ca_TAG"
    ELSE IF C1_Cap.otype <= CAP_MAX_SEALED_OTYPE \/ C1_Cap.otype = CAP_OTYPE_SENTRY
         THEN "CP2Ca_SEAL"
    ELSE IF C1_Perm \notin C1_Cap.perms THEN C1_PermCause
    ELSE IF ~(C1_Cap.base <= C1_Addr /\ C1_Addr + C1_Len <= C1_Cap.top)
         THEN "CP2Ca_LENGTH"
    ELSE "none"

\* C1: a check of capability c for permission p over [a, a+n) returns without
\* raising only if c is tagged, unsealed (no user type, no sentry), holds p
\* and [a, a+n) is within [c.base, c.top); when it raises, the cause is that
\* of the first failing condition in the order TAG, SEAL, PERM_*, LENGTH, and
\* BadVAddr is a.
C1_CheckCapOrder ==
    last.op \in CheckOps =>
        /\ Succeeded <=> C1_FirstFailing = "none"
        /\ ~Succeeded =>
            /\ exception_index = "EXCP_C2E"
            /\ CP2_CapCause.cause = C1_FirstFailing
            /\ CP0_BadVAddr = C1_Addr

\* A store check that fails on the last condition only: DDC is tagged,
\* unsealed and holds STORE, the region is out of bounds.
C1_Witness ==
    /\ last.op = "ccheck_store"
    /\ C1_Cap.tag /\ CAP_PERM_STORE \in C1_Cap.perms
    /\ CP2_CapCause.cause = "CP2Ca_LENGTH"
    /\ exception_index = "EXCP_C2E"

\* ---- C2 ----------------------------------------------------------------
FromCbOps ==
    {"candperm", "cincoffset", "csetoffset", "csetaddr", "candaddr", "csetbounds",
     "csetboundsexact", "cseal", "ccseal", "csealentry", "cunseal", "ccopytype"}
FromCbOrDdcOps == {"cfromptr", "cbuildcap"}
FromPccOps == {"cgetpcc", "cgetpccsetoffset", "cjalr"}
C2_Writes ==
    /\ Succeeded
    /\ last.cd # 0
    /\ \/ last.op \in FromCbOps \cup FromCbOrDdcOps \cup FromPccOps
       \/ last.op = "cmovz" /\ last.rt = 0
       \/ last.op = "cmovn" /\ last.rt # 0
C2_Source ==
    IF last.op \in FromPccOps THEN Pre.PCC
    ELSE IF last.op \in FromCbOrDdcOps THEN get_capreg_0_is_ddc(Pre, last.cb)
    ELSE get_readonly_capreg(Pre, last.cb)
C2_Within(derived, source) ==
    /\ source.tag
    /\ derived.base >= source.base
    /\ derived.top <= source.top
    /\ derived.perms \subseteq source.perms
    /\ derived.uperms \subseteq source.uperms

\* C2: every tagged capability an instruction writes to a register has
\* base >= source.base, top <= source.top, perms and uperms within the
\* source's, where source is the tagged capability it was derived from.
C2_Monotonic ==
    (C2_Writes /\ cgpr[last.cd].tag) => C2_Within(cgpr[last.cd], C2_Source)

\* What holds of the code: the same, except for the top of a capability
\* built by CBuildCap from a pattern whose top is above UINT64_MAX.
C2_MonotonicBelowMaxTop ==
    (/\ C2_Writes /\ cgpr[last.cd].tag
     /\ ~(last.op = "cbuildcap" /\ cgpr[last.cd].top > UINT64_MAX))
        => C2_Within(cgpr[last.cd], C2_Source)

\* ---- C3 ----------------------------------------------------------------
\* C3 as stated: when a helper raises, the capability registers hold the
\* values they had before the instruction and nothing but BadVAddr and the
\* capability cause has changed.
C3_OnlyExceptionState ==
    ~Succeeded =>
        /\ RegistersKept
        /\ PCC = Pre.PCC
        /\ linkedflag = Pre.linkedflag
        /\ statcounters = Pre.statcounters

\* C3, as the code has it: when a helper raises, the general capability
\* registers, the hardware capability registers and CapBranchTarget hold the
\* values they had before the instruction; besides BadVAddr and the cause,
\* a raising load-linked has cleared the linked flag, a raising PC check has
\* moved PCC's offset to next_pc and counted the instruction, and a raise for
\* an unrepresentable or inexact result has counted it.
C3_RegistersKeptOnRaise ==
    ~Succeeded =>
        /\ RegistersKept
        /\ PCC # Pre.PCC =>
            /\ last.op = "ccheck_pc"
            /\ PCC = [Pre.PCC EXCEPT !.offset = (last.rt + Word - Pre.PCC.base) % Word]
        /\ linkedflag # Pre.linkedflag =>
            last.op \in {"cloadlinked", "cllc"} /\ linkedflag = 0
        /\ statcounters # Pre.statcounters =>
            \/ last.op = "ccheck_pc"
            \/ exception_index = "EXCP_DEBUG"
            \/ CP2_CapCause.cause = "CP2Ca_INEXACT"

\* A load-linked that raised after clearing a set linked flag.
C3_Witness ==
    /\ last.op = "cloadlinked"
    /\ ~Succeeded
    /\ Pre.linkedflag = 1 /\ linkedflag = 0
    /\ RegistersKept

\* ---- C4 ----------------------------------------------------------------
CbCap == get_readonly_capreg(Pre, last.cb)
CbCursor == (CbCap.base + CbCap.offset) % Word
CbUnsealed ==
    ~(CbCap.otype <= CAP_MAX_SEALED_OTYPE \/ CbCap.otype = CAP_OTYPE_SENTRY)
RaisedC2(cause, reg) ==
    /\ exception_index = "EXCP_C2E"
    /\ CP2_CapCause = [cause |-> cause, reg |-> reg]

\* C4: SetBoundsExact(c, len) on a tagged unsealed c with c.base <= c.cursor
\* either succeeds with base = c.cursor, top = c.cursor + len, offset 0 and
\* tag 1, or raises INEXACT; a request whose top c.cursor + len exceeds c.top
\* raises LENGTH and writes nothing.
C4_ExactOrInexact ==
    (/\ last.op = "csetboundsexact"
     /\ CbCap.tag /\ CbUnsealed /\ CbCap.base <= CbCursor)
        => IF CbCursor + last.rt > CbCap.top
           THEN /\ exception_index = "EXCP_C2E"
                /\ CP2_CapCause.cause = "CP2Ca_LENGTH"
                /\ cgpr = Pre.cgpr
           ELSE \/ /\ Succeeded
                   /\ last.cd # 0 =>
                        cgpr[last.cd] = [CbCap EXCEPT !.base = CbCursor,
                                                      !.top = CbCursor + last.rt,
                                                      !.offset = 0]
                \/ /\ exception_index = "EXCP_C2E"
                   /\ CP2_CapCause.cause = "CP2Ca_INEXACT"
                   /\ cgpr = Pre.cgpr

\* What holds of the code: the same for every request that ends at or below
\* UINT64_MAX; one that ends at 2^64 raises LENGTH even inside c's bounds.
C4_ExactBelowMaxTop ==
    (last.op = "csetboundsexact" /\ CbCursor + last.rt <= UINT64_MAX)
        => C4_ExactOrInexact

\* ---- C5 ----------------------------------------------------------------
CursorOps ==
    {"cincoffset", "csetoffset", "csetaddr", "candaddr", "cgetpccsetoffset",
     "cfromptr"}
C5_Source ==
    IF last.op = "cgetpccsetoffset" THEN Pre.PCC
    ELSE IF last.op = "cfromptr" THEN get_capreg_0_is_ddc(Pre, last.cb)
    ELSE get_readonly_capreg(Pre, last.cb)
C5_Cursor == (C5_Source.base + C5_Source.offset) % Word
C5_NewOffset ==
    IF last.op = "cincoffset" THEN (C5_Source.offset + last.rt) % Word
    ELSE IF last.op = "csetaddr" THEN (last.rt + Word - C5_Source.base) % Word
    ELSE IF last.op = "candaddr"
         THEN (BitAnd(C5_Cursor, last.rt) + Word - C5_Source.base) % Word
    ELSE last.rt
C5_Representable == is_representable_cap(C5_Source, C5_NewOffset)
C5_SourceSealed ==
    C5_Source.otype <= CAP_MAX_SEALED_OTYPE \/ C5_Source.otype = CAP_OTYPE_SENTRY
C5_Outcome ==
    IF ~C5_Representable
    THEN IF Pre.c2e_on_unrepresentable
         THEN RaisedC2("CP2Ca_INEXACT", last.cd) /\ cgpr = Pre.cgpr
         ELSE /\ Succeeded
              /\ last.cd # 0 =>
                    /\ ~cgpr[last.cd].tag
                    /\ (cgpr[last.cd].base + cgpr[last.cd].offset) % Word
                            = (C5_Source.base + C5_NewOffset) % Word
    ELSE /\ Succeeded
         /\ last.cd # 0 => cgpr[last.cd] = [C5_Source EXCEPT !.offset = C5_NewOffset]

\* C5 as stated: for IncOffset, SetOffset, SetAddr, AndAddr, GetPCCSetOffset
\* and FromPtr on a tagged source, an unrepresentable new cursor gives cd
\* tag 0 and cursor = source.base + new offset when the INEXACT flag is off,
\* and an INEXACT exception naming cd with cd unwritten when it is on; a
\* representable result is the source with only the offset changed.
C5_AnyTaggedSource ==
    (last.op \in CursorOps /\ C5_Source.tag) => C5_Outcome

\* C5, as the code has it: the same when the source is also unsealed, the
\* debugger flag is off and FromPtr's pointer is not 0; with the debugger
\* flag on an unrepresentable result raises the debug exception and leaves
\* cd unwritten, whatever the INEXACT flag; FromPtr of 0 writes the null
\* capability.
C5_UnsealedSource ==
    /\ (/\ last.op \in CursorOps
        /\ C5_Source.tag /\ ~C5_SourceSealed
        /\ ~(last.op = "cfromptr" /\ last.rt = 0))
            => IF Pre.debugger_on_unrepresentable /\ ~C5_Representable
               THEN exception_index = "EXCP_DEBUG" /\ cgpr = Pre.cgpr
               ELSE C5_Outcome
    /\ (last.op = "cfromptr" /\ last.rt = 0)
            => Succeeded /\ (last.cd # 0 => cgpr[last.cd] = null_capability)

\* SetAddr moved a tagged unsealed capability out of its representable
\* window with both flags off: cd is untagged and points at the address.
C5_Witness ==
    /\ last.op = "csetaddr"
    /\ C5_Source.tag /\ ~C5_SourceSealed /\ ~C5_Representable
    /\ ~Pre.c2e_on_unrepresentable /\ ~Pre.debugger_on_unrepresentable
    /\ last.cd # 0 /\ Succeeded
    /\ ~cgpr[last.cd].tag
    /\ (cgpr[last.cd].base + cgpr[last.cd].offset) % Word = last.rt

\* ---- C6 ----------------------------------------------------------------
\* Two IncOffset in a row, the second on the register the first one wrote.
C6_Pair ==
    /\ prev.op = "cincoffset" /\ last.op = "cincoffset"
    /\ prev.cd # 0 /\ last.cb = prev.cd
C6_Cap == get_readonly_capreg(prev.pre, prev.cb)
C6_Sum == (prev.rt + last.rt) % Word
\* IncOffset(c, a+b) run on the state the pair started from.
C6_Direct == cincoffset_impl(prev.pre, last.cd, prev.cb, C6_Sum)
C6_SameOutcome ==
    /\ exception_index = C6_Direct.env.exception_index
    /\ CP2_CapCause.cause = C6_Direct.env.CP2_CapCause.cause
    /\ (Succeeded /\ last.cd # 0) => cgpr[last.cd] = C6_Direct.env.cgpr[last.cd]
C6_Identity ==
    (last.op = "cincoffset" /\ last.rt = 0)
        => Succeeded /\ (last.cd # 0 => cgpr[last.cd] = CbCap)
C6_Sealed(c) == c.otype <= CAP_MAX_SEALED_OTYPE \/ c.otype = CAP_OTYPE_SENTRY

\* C6 as stated: for every capability c, tagged or not, sealed or not,
\* IncOffset(c, 0) = c and IncOffset(IncOffset(c, a), b) = IncOffset(c, a+b)
\* whenever the offsets c.offset + a and c.offset + a + b are representable,
\* with the same outcome including whether an exception is raised.
C6_AnyCap ==
    /\ C6_Identity
    /\ (/\ C6_Pair
        /\ is_representable_cap(C6_Cap, (C6_Cap.offset + prev.rt) % Word)
        /\ is_representable_cap(C6_Cap, (C6_Cap.offset + C6_Sum) % Word))
            => C6_SameOutcome
    /\ (last.op = "cincoffset" /\ ~Succeeded)
            => \A b \in IncOperands :
                (/\ is_representable_cap(CbCap, (CbCap.offset + last.rt) % Word)
                 /\ is_representable_cap(CbCap, (CbCap.offset + last.rt + b) % Word))
                    => LET direct == cincoffset_impl(Pre, last.cd, last.cb,
                                                     (last.rt + b) % Word)
                       IN  /\ direct.env.exception_index = exception_index
                           /\ direct.env.CP2_CapCause.cause = CP2_CapCause.cause

\* C6, as the code has it: IncOffset(c, 0) = c for every c, and the two
\* increments compose when c is untagged, or unsealed with c.offset + a
\* representable; a tagged sealed c raises SEAL on every non-zero increment,
\* so a then -a raises where the increment by 0 returns c.
C6_UnsealedOrUntagged ==
    /\ C6_Identity
    /\ (/\ C6_Pair
        /\ \/ ~C6_Cap.tag
           \/ /\ ~C6_Sealed(C6_Cap)
              /\ is_representable_cap(C6_Cap, (C6_Cap.offset + prev.rt) % Word))
            => C6_SameOutcome

\* A tagged unsealed capability incremented twice by non-zero amounts, the
\* sum wrapping around the word, and the result written.
C6_Witness ==
    /\ C6_Pair /\ Succeeded /\ last.cd # 0
    /\ C6_Cap.tag /\ ~C6_Sealed(C6_Cap)
    /\ prev.rt # 0 /\ last.rt # 0 /\ prev.rt + last.rt >= Word
    /\ cgpr[last.cd].tag
    /\ cgpr[last.cd].offset = (C6_Cap.offset + C6_Sum) % Word

\* ---- C7 ----------------------------------------------------------------
\* Unseal(c, k) into a register, then Seal of that register with the same k.
C7_Pair ==
    /\ prev.op = "cunseal" /\ last.op = "cseal"
    /\ prev.cd # 0 /\ prev.cd # prev.ct
    /\ last.cb = prev.cd /\ last.ct = prev.ct
C7_Pre(c, k) ==
    /\ c.tag /\ c.otype <= CAP_MAX_SEALED_OTYPE
    /\ k.tag /\ k.otype = CAP_OTYPE_UNSEALED
    /\ (k.base + k.offset) % Word = c.otype
    /\ k.base <= c.otype /\ c.otype < k.top
    /\ CAP_PERM_SEAL \in k.perms /\ CAP_PERM_UNSEAL \in k.perms
C7_Cap == get_readonly_capreg(prev.pre, prev.cb)
C7_Key == get_readonly_capreg(prev.pre, prev.ct)

CtCap == get_readonly_capreg(Pre, last.ct)
CtCursor == (CtCap.base + CtCap.offset) % Word

\* C8: Unseal writes cd only if cs is tagged and sealed with a user otype, ct
\* is tagged and unsealed, ct.cursor = cs.otype, ct holds UNSEAL and
\* ct.cursor is inside ct's bounds; the result is cs with the seal removed,
\* every permission but GLOBAL unchanged, and GLOBAL set iff cs and ct both
\* hold it.
C8_Unseal ==
    (last.op = "cunseal" /\ Succeeded)
        => /\ CbCap.tag /\ CbCap.otype <= CAP_MAX_SEALED_OTYPE
           /\ CtCap.tag /\ CtCap.otype = CAP_OTYPE_UNSEALED
           /\ CtCursor = CbCap.otype
           /\ CAP_PERM_UNSEAL \in CtCap.perms
           /\ CtCap.base <= CtCursor /\ CtCursor < CtCap.top
           /\ last.cd # 0 =>
                cgpr[last.cd] =
                    [CbCap EXCEPT
                        !.otype = CAP_OTYPE_UNSEALED,
                        !.perms = (CbCap.perms \ {CAP_PERM_GLOBAL}) \cup
                                  (({CAP_PERM_GLOBAL} \cap CbCap.perms)
                                        \cap CtCap.perms)]
           /\ \A r \in GPRegs \ {last.cd} : cgpr[r] = Pre.cgpr[r]

\* An Unseal of a GLOBAL capability with a key that lacks GLOBAL.
C8_Witness ==
    /\ last.op = "cunseal" /\ Succeeded /\ last.cd # 0
    /\ CAP_PERM_GLOBAL \in CbCap.perms
    /\ CAP_PERM_GLOBAL \notin CtCap.perms
    /\ cgpr[last.cd].otype = CAP_OTYPE_UNSEALED
    /\ cgpr[last.cd].perms = CbCap.perms \ {CAP_PERM_GLOBAL}

\* ---- C9 ----------------------------------------------------------------
JumpOps == {"cjr", "cjalr"}
C9_FirstFailing ==
    IF ~CbCap.tag THEN "CP2Ca_TAG"
    ELSE IF CbCap.otype <= CAP_MAX_SEALED_OTYPE THEN "CP2Ca_SEAL"
    ELSE IF CAP_PERM_EXECUTE \notin CbCap.perms THEN "CP2Ca_PERM_EXE"
    ELSE IF CAP_PERM_GLOBAL \notin CbCap.perms THEN "CP2Ca_GLOBAL"
    ELSE IF ~(CbCap.base <= CbCursor /\ CbCursor + 4 <= CbCap.top)
         THEN "CP2Ca_LENGTH"
    ELSE IF CbCursor % 4 # 0 THEN "EXCP_AdEL"
    ELSE "none"

\* C9: Jr and Jalr install a branch target only if cb is tagged, not sealed
\* with a user otype, holds EXECUTE and GLOBAL, has 4 bytes in bounds at its
\* cursor and the cursor is 4-byte aligned; otherwise they raise, in this
\* order, TAG, SEAL, PERM_EXECUTE, GLOBAL, LENGTH (naming cb) or AdEL, and
\* leave CapBranchTarget and cd unchanged.
C9_JumpChecks ==
    last.op \in JumpOps =>
        /\ Succeeded <=> C9_FirstFailing = "none"
        /\ C9_FirstFailing = "EXCP_AdEL" => exception_index = "EXCP_AdEL"
        /\ C9_FirstFailing \notin {"none", "EXCP_AdEL"}
                => RaisedC2(C9_FirstFailing, last.cb)
        /\ ~Succeeded => RegistersKept
        /\ Succeeded =>
            /\ CapBranchTarget.tag
            /\ (CapBranchTarget.base + CapBranchTarget.offset) % Word = CbCursor

\* Jr on a tagged capability sealed with a user otype raised SEAL.
C9_Witness ==
    /\ last.op = "cjr"
    /\ CbCap.tag /\ CbCap.otype <= CAP_MAX_SEALED_OTYPE
    /\ RaisedC2("CP2Ca_SEAL", last.cb)
    /\ CapBranchTarget = Pre.CapBranchTarget

\* ---- C10 ---------------------------------------------------------------
C10_Link == [Pre.PCC EXCEPT !.offset = (Pre.PCC.offset + 8) % Word]

\* C10: a successful Jalr(cd, cb) writes cd := PCC with its offset increased
\* by 8 and CapBranchTarget := cb; if cb is a sentry, CapBranchTarget has the
\* sentry seal removed and the link in cd is a sentry; if cb is unsealed the
\* link is unsealed.
C10_JalrLink ==
    (last.op = "cjalr" /\ Succeeded)
        => IF CbCap.otype = CAP_OTYPE_SENTRY
           THEN /\ CapBranchTarget = [CbCap EXCEPT !.otype = CAP_OTYPE_UNSEALED]
                /\ last.cd # 0 =>
                    cgpr[last.cd] = [C10_Link EXCEPT !.otype = CAP_OTYPE_SENTRY]
           ELSE /\ CapBranchTarget = CbCap
                /\ last.cd # 0 =>
                    /\ cgpr[last.cd] = C10_Link
                    /\ cgpr[last.cd].otype = CAP_OTYPE_UNSEALED

\* A Jalr through a sentry that linked into a register other than cb.
C10_Witness ==
    /\ last.op = "cjalr" /\ Succeeded
    /\ CbCap.otype = CAP_OTYPE_SENTRY
    /\ last.cd # 0 /\ last.cd # last.cb
    /\ cgpr[last.cd].otype = CAP_OTYPE_SENTRY
    /\ CapBranchTarget.otype = CAP_OTYPE_UNSEALED

\* ---- C11 ---------------------------------------------------------------
DerefOps == {"cload", "cstore", "cloadlinked"}
CallOps == {"ccall", "ccall_notrap"}
TaggedSentry(c) == c.tag /\ cap_is_sealed_entry(c)

\* The operation dereferences, calls or plainly jumps through a tagged sentry.
C11_ThroughSentry(ops) ==
    /\ last.op \in ops
    /\ \/ /\ last.op \in DerefOps
          /\ TaggedSentry(get_capreg_0_is_ddc(Pre, last.cb))
       \/ /\ last.op \in CallOps
          /\ \/ TaggedSentry(get_readonly_capreg(Pre, last.cb))
             \/ TaggedSentry(get_readonly_capreg(Pre, last.ct))
       \/ /\ last.op = "cjr"
          /\ TaggedSentry(get_readonly_capreg(Pre, last.cb))

\* C11 as stated: of Jr, Jalr, CCall, the loads and the stores only Jalr
\* accepts a tagged sentry; Jr on a tagged sentry raises and does not install
\* it as branch target.
C11_OnlyJalrAcceptsSentry ==
    C11_ThroughSentry(DerefOps \cup CallOps \cup {"cjr"}) =>
        /\ ~Succeeded
        /\ CapBranchTarget = Pre.CapBranchTarget

C11_JumpTarget == get_readonly_capreg(Pre, last.cb)

\* C11 as the code has it: loads, stores and CCall refuse a tagged sentry and
\* change no register; Jr accepts one exactly as Jalr does: when the sentry
\* is executable, global, in bounds for one instruction and aligned, the jump
\* succeeds and installs the sentry, unsealed, as branch target.
C11_SentryByEitherJump ==
    /\ C11_ThroughSentry(DerefOps \cup CallOps) => (~Succeeded /\ RegistersKept)
    /\ ( /\ last.op \in JumpOps
         /\ TaggedSentry(C11_JumpTarget)
         /\ {CAP_PERM_EXECUTE, CAP_PERM_GLOBAL} \subseteq C11_JumpTarget.perms
         /\ cap_is_in_bounds(C11_JumpTarget, cap_get_cursor(C11_JumpTarget), 4)
         /\ align_of(4, cap_get_cursor(C11_JumpTarget)) = 0 )
       => /\ Succeeded
          /\ CapBranchTarget = cap_unseal_entry(C11_JumpTarget)

C11_Witness ==
    /\ last.op = "cjr"
    /\ TaggedSentry(C11_JumpTarget)
    /\ Succeeded
    /\ CapBranchTarget = cap_unseal_entry(C11_JumpTarget)
    /\ CapBranchTarget # Pre.CapBranchTarget

\* ---- C12 ---------------------------------------------------------------
CallCs == get_readonly_capreg(Pre, last.cb)
CallCb == get_readonly_capreg(Pre, last.ct)

C12_Conditions ==
    /\ CallCs.tag /\ CallCb.tag
    /\ cap_is_sealed_with_type(CallCs) /\ cap_is_sealed_with_type(CallCb)
    /\ CallCs.otype = CallCb.otype
    /\ CallCs.otype <= CAP_MAX_SEALED_OTYPE
    /\ CAP_PERM_EXECUTE \in CallCs.perms
    /\ CAP_PERM_EXECUTE \notin CallCb.perms
    /\ cap_get_base(CallCs) <= cap_get_cursor(CallCs)
    /\ cap_get_cursor(CallCs) < cap_get_top65(CallCs)
    /\ CAP_PERM_CCALL \in CallCs.perms
    /\ CAP_PERM_CCALL \in CallCb.perms

C12_TypeRaised ==
    /\ last.op = "ccall_notrap"
    /\ CallCs.otype # CallCb.otype
    /\ RaisedC2("CP2Ca_TYPE", last.cb)

\* ---- C13 ---------------------------------------------------------------
C13_ChecksPass ==
    /\ CallCs.tag /\ CallCb.tag
    /\ cap_is_sealed_with_type(CallCs) /\ cap_is_sealed_with_type(CallCb)
    /\ CallCs.otype = CallCb.otype
    /\ CallCs.otype <= CAP_MAX_SEALED_OTYPE
    /\ CAP_PERM_EXECUTE \in CallCs.perms
    /\ CAP_PERM_EXECUTE \notin CallCb.perms
    /\ cap_is_in_bounds(CallCs, cap_get_cursor(CallCs), 1)

\* C13: CCall with selector 0 always raises a capability exception and
\* changes no register (IDC and CapBranchTarget included); the exception is
\* the CALL trap naming cs exactly when the tag, seal, otype, EXECUTE and
\* bounds checks pass, whatever the CCALL permissions are.  CReturn always
\* raises the RETURN trap with no register index.
C13_Traps ==
    /\ last.op = "ccall" =>
        /\ exception_index = "EXCP_C2E"
        /\ RegistersKept /\ PCC = Pre.PCC
        /\ RaisedC2("CP2Ca_CALL", last.cb) <=> C13_ChecksPass
        /\ CP2_CapCause.cause # "CP2Ca_PERM_CCALL"
    /\ last.op = "creturn" =>
        /\ RaisedC2("CP2Ca_RETURN", 255)
        /\ RegistersKept /\ PCC = Pre.PCC

C13_Witness ==
    /\ last.op = "ccall"
    /\ RaisedC2("CP2Ca_CALL", last.cb)
    /\ CAP_PERM_CCALL \notin CallCs.perms

\* ---- C14 ---------------------------------------------------------------
\* The helper succeeded and the only register it changed is cd, now v
\* (a write to register 0 is discarded).
WroteOnly(cd, v) ==
    /\ Succeeded
    /\ cgpr = update_capreg(Pre, cd, v).cgpr
    /\ chwr = Pre.chwr
    /\ CapBranchTarget = Pre.CapBranchTarget

C14_Source == get_capreg_0_is_ddc(Pre, last.cb)

C14_Checks(then) ==
    last.op = "cfromptr" =>
        IF last.rt = 0 THEN WroteOnly(last.cd, null_capability)
        ELSE IF ~C14_Source.tag THEN RaisedC2("CP2Ca_TAG", last.cb) /\ RegistersKept
        ELSE IF is_cap_sealed(C14_Source)
             THEN RaisedC2("CP2Ca_SEAL", last.cb) /\ RegistersKept
        ELSE then

\* C14 as stated: FromPtr(cd, cb, 0) writes null and raises nothing whatever
\* cb is; for rt # 0 it raises TAG for an untagged cb, else SEAL for a sealed
\* cb, else writes cb with offset = rt.
C14_AlwaysWritesOffset ==
    C14_Checks(WroteOnly(last.cd, [C14_Source EXCEPT !.offset = last.rt]))

\* C14 with the last case split: cb with offset = rt is written when that
\* offset is representable in cb's bounds; when it is not, the debugger flag
\* raises the debug exception, else the INEXACT flag raises INEXACT naming cd,
\* else cb is written with offset = rt and its tag cleared.
C14_FromPtr ==
    C14_Checks(
        IF is_representable_cap(C14_Source, last.rt)
        THEN WroteOnly(last.cd, [C14_Source EXCEPT !.offset = last.rt])
        ELSE IF Pre.debugger_on_unrepresentable
             THEN exception_index = "EXCP_DEBUG" /\ RegistersKept
        ELSE IF Pre.c2e_on_unrepresentable
             THEN RaisedC2("CP2Ca_INEXACT", last.cd) /\ RegistersKept
        ELSE WroteOnly(last.cd, [C14_Source EXCEPT !.offset = last.rt,
                                                   !.tag = FALSE]))

C14_Witness ==
    /\ last.op = "cfromptr"
    /\ last.rt # 0 /\ last.cd # 0
    /\ C14_Source.tag /\ ~is_cap_sealed(C14_Source)
    /\ ~is_representable_cap(C14_Source, last.rt)
    /\ Succeeded
    /\ cgpr[last.cd] = [C14_Source EXCEPT !.offset = last.rt, !.tag = FALSE]

C14_NullFromSealed ==
    /\ last.op = "cfromptr"
    /\ last.rt = 0 /\ last.cd # 0
    /\ C14_Source.tag /\ is_cap_sealed(C14_Source)
    /\ Succeeded
    /\ cgpr[last.cd] = null_capability

\* ---- C15 ---------------------------------------------------------------
C15_Cb == get_readonly_capreg(Pre, last.cb)
C15_Ct == get_capreg_0_is_ddc(Pre, last.ct)

C15_Returns(value) ==
    last.op = "ctoptr" =>
        IF ~C15_Ct.tag THEN RaisedC2("CP2Ca_TAG", last.ct) /\ RegistersKept
        ELSE /\ Succeeded /\ RegistersKept
             /\ last.ret = IF ~C15_Cb.tag THEN 0 ELSE value

\* C15: ToPtr raises TAG naming ct for an untagged ct; otherwise returns 0
\* for an untagged cb; otherwise cb.cursor - ct.base when cb.cursor is within
\* ct's bounds, and 0 when it is below ct.base or not below ct.top.
C15_ToPtr ==
    C15_Returns(IF /\ cap_get_base(C15_Ct) <= cap_get_cursor(C15_Cb)
                   /\ cap_get_cursor(C15_Cb) < cap_get_top65(C15_Ct)
                THEN cap_get_cursor(C15_Cb) - cap_get_base(C15_Ct)
                ELSE 0)

\* What the helper computes: the cursor equal to ct's top is let through.
C15_ToPtrUpToTop ==
    C15_Returns(IF /\ cap_get_base(C15_Ct) <= cap_get_cursor(C15_Cb)
                   /\ cap_get_cursor(C15_Cb) <= cap_get_top65(C15_Ct)
                THEN cap_get_cursor(C15_Cb) - cap_get_base(C15_Ct)
                ELSE 0)

\* ---- C16 ---------------------------------------------------------------
CompareOps == {"ceq", "cne", "clt", "cle", "cltu", "cleu", "cexeq", "cnexeq",
               "ctestsubset"}
CmpA == get_readonly_capreg(Pre, last.cb)
CmpB == get_readonly_capreg(Pre, last.ct)
\* A comparison returns, and leaves the whole hart state as it was.
NothingChanged == Succeeded /\ Env = Pre

C16_PointerEqual ==
    CmpA.tag = CmpB.tag /\ cap_get_cursor(CmpA) = cap_get_cursor(CmpB)

C16_Compare(same) ==
    /\ last.op \in {"ceq", "cne", "cexeq", "cnexeq"} => NothingChanged
    /\ last.op = "cexeq" => last.ret = Bool(same)
    /\ last.op = "cnexeq" =>
        /\ last.ret = Bool(~same)
        /\ last.ret = 1 - helper_cexeq(Pre, last.cb, last.ct).ret
    /\ last.op = "ceq" =>
        /\ last.ret = Bool(C16_PointerEqual)
        /\ last.ret = 1 - helper_cne(Pre, last.cb, last.ct).ret
    /\ last.op = "cne" =>
        /\ last.ret = Bool(~C16_PointerEqual)
        /\ last.ret = 1 - helper_ceq(Pre, last.cb, last.ct).ret

\* C16: exeq(a, b) = 1 iff a and b agree on tag, base, top, offset, perms,
\* uperms and otype; nexeq = 1 - exeq; eq = 1 - ne, and eq = 1 iff the tags
\* are equal and the cursors are equal.
C16_AllFields == C16_Compare(CmpA = CmpB)

\* The same with the user permissions left out of exeq: what the helper
\* compares.
C16_AllButUperms ==
    C16_Compare([CmpA EXCEPT !.uperms = {}] = [CmpB EXCEPT !.uperms = {}])

\* ---- C17 ---------------------------------------------------------------
C17_Ordered(signed, strict) ==
    LET a == IF signed THEN ToSigned(cap_get_cursor(CmpA)) ELSE cap_get_cursor(CmpA)
        b == IF signed THEN ToSigned(cap_get_cursor(CmpB)) ELSE cap_get_cursor(CmpB)
    IN  IF CmpA.tag # CmpB.tag THEN Bool(~CmpA.tag)
        ELSE IF strict THEN Bool(a < b) ELSE Bool(a <= b)

\* C17: lt, le, ltu, leu order an untagged operand before a tagged one
\* whatever the cursors are, and compare the cursors (signed for lt and le,
\* unsigned for ltu and leu) when the tags are equal; so lt(a, b) =
\* 1 - le(b, a) and ltu(a, b) = 1 - leu(b, a).
C17_OrderedCompare ==
    /\ last.op \in {"clt", "cle", "cltu", "cleu"} => NothingChanged
    /\ last.op = "clt" =>
        /\ last.ret = C17_Ordered(TRUE, TRUE)
        /\ last.ret = 1 - helper_cle(Pre, last.ct, last.cb).ret
    /\ last.op = "cle" =>
        /\ last.ret = C17_Ordered(TRUE, FALSE)
        /\ last.ret = 1 - helper_clt(Pre, last.ct, last.cb).ret
    /\ last.op = "cltu" =>
        /\ last.ret = C17_Ordered(FALSE, TRUE)
        /\ last.ret = 1 - helper_cleu(Pre, last.ct, last.cb).ret
    /\ last.op = "cleu" =>
        /\ last.ret = C17_Ordered(FALSE, FALSE)
        /\ last.ret = 1 - helper_cltu(Pre, last.ct, last.cb).ret

\* An untagged operand with the larger signed cursor is still the lesser one.
C17_Witness ==
    /\ last.op = "clt"
    /\ ~CmpA.tag /\ CmpB.tag
    /\ ToSigned(cap_get_cursor(CmpA)) > ToSigned(cap_get_cursor(CmpB))
    /\ cap_get_cursor(CmpA) < cap_get_cursor(CmpB)
    /\ last.ret = 1

\* ---- C18 ---------------------------------------------------------------
\* Every access that b's bounds allow, a's bounds allow.
C18_BoundsContained(a, b) ==
    \A addr \in 0..(Word - 1), n \in 1..Word :
        cap_is_in_bounds(b, addr, n) => cap_is_in_bounds(a, addr, n)

C18_Subset(top_of(_)) ==
    last.op = "ctestsubset" =>
        /\ NothingChanged
        /\ last.ret = Bool(/\ CmpA.tag = CmpB.tag
                           /\ CmpA.base <= CmpB.base
                           /\ top_of(CmpB) <= top_of(CmpA)
                           /\ CmpB.perms \subseteq CmpA.perms
                           /\ CmpB.uperms \subseteq CmpA.uperms)

\* C18: testsubset(cb, ct) = 1 iff the tags are equal, cb.base <= ct.base,
\* ct.top <= cb.top, ct.perms is a subset of cb.perms and ct.uperms of
\* cb.uperms; and then every (addr, n) in bounds of ct is in bounds of cb.
C18_TestSubset ==
    /\ C18_Subset(cap_get_top65)
    /\ (last.op = "ctestsubset" /\ last.ret = 1) => C18_BoundsContained(CmpA, CmpB)

\* The same on the tops as the helper reads them, 2^64 read as 2^64 - 1.
C18_TestSubsetSaturated == C18_Subset(cap_get_top)

\* ---- C19 ---------------------------------------------------------------
C19_Null == CmpA.base = 0 /\ ~CmpA.tag /\ CmpA.offset = 0

\* C19: BEZ returns 1 iff base = 0, tag = 0 and offset = 0, BNZ returns 1 iff
\* not, so exactly one of the two returns 1; BTS returns the tag and BTU its
\* negation; none of the four changes any state.
C19_Branches ==
    /\ last.op \in {"cbez", "cbnz", "cbts", "cbtu"} => NothingChanged
    /\ last.op = "cbez" =>
        /\ last.ret = Bool(C19_Null)
        /\ last.ret + helper_cbnz(Pre, last.cb).ret = 1
    /\ last.op = "cbnz" =>
        /\ last.ret = Bool(~C19_Null)
        /\ last.ret + helper_cbez(Pre, last.cb).ret = 1
    /\ last.op = "cbts" => last.ret = Bool(CmpA.tag)
    /\ last.op = "cbtu" => last.ret = Bool(~CmpA.tag)

\* An untagged value that is not the sentinel takes the BNZ branch.
C19_Witness ==
    /\ last.op = "cbnz"
    /\ ~CmpA.tag /\ CmpA.base # 0
    /\ last.ret = 1

\* ---- C20 ---------------------------------------------------------------
C20_Selected(i) == BitAnd(last.rt, 2 ^ i) # 0

\* C20: ClearReg(mask) makes DDC null when bit 0 is set and general register
\* i null when bit i is set; every other register (PCC, the other hardware
\* registers, the branch target) and the rest of the state is unchanged, and
\* nothing is raised.
C20_ClearReg ==
    last.op = "cclearreg" =>
        /\ Succeeded
        /\ \A r \in GPRegs :
            cgpr[r] = IF C20_Selected(r) THEN null_capability ELSE Pre.cgpr[r]
        /\ chwr["DDC"] = IF C20_Selected(0) THEN null_capability ELSE Pre.chwr["DDC"]
        /\ \A h \in HwrNames \ {"DDC"} : chwr[h] = Pre.chwr[h]
        /\ get_readonly_capreg(Env, 0) = get_readonly_capreg(Pre, 0)
        /\ Env = [Pre EXCEPT !.cgpr = cgpr, !.chwr = chwr]

C20_Witness ==
    /\ last.op = "cclearreg"
    /\ C20_Selected(0) /\ ~C20_Selected(1) /\ C20_Selected(2)
    /\ Pre.chwr["DDC"] # null_capability /\ chwr["DDC"] = null_capability
    /\ Pre.cgpr[2] # null_capability /\ cgpr[2] = null_capability
    /\ cgpr[1] = Pre.cgpr[1] /\ cgpr[1] # null_capability

\* ---- C21 ---------------------------------------------------------------
HwrOps == {"creadhwr", "cwritehwr"}
C21_Protected == {"PrivTlsCap", "KR1C", "KR2C", "KCC", "KDC", "EPCC", "ErrorEPCC"}

C21_Name(n) ==
    CASE n = 0 -> "DDC" [] n = 1 -> "UserTlsCap" [] n = 8 -> "PrivTlsCap"
      [] n = 22 -> "KR1C" [] n = 23 -> "KR2C" [] n = 28 -> "ErrorEPCC"
      [] n = 29 -> "KCC" [] n = 30 -> "KDC" [] n = 31 -> "EPCC"
      [] OTHER -> "none"

C21_Allowed(name, env) ==
    LET sysregs == CAP_ACCESS_SYS_REGS \in env.PCC.perms
    IN  CASE name \in {"DDC", "UserTlsCap"} -> TRUE
          [] name = "PrivTlsCap" -> sysregs
          [] name \in {"KR1C", "KR2C"} -> env.kernel_mode
          [] OTHER -> env.kernel_mode /\ sysregs

\* C21: ReadHwr and WriteHwr reach DDC and UserTlsCap always, PrivTlsCap iff
\* PCC has ACCESS_SYS_REGS, KR1C and KR2C iff the hart is in kernel mode, KCC,
\* KDC, EPCC and ErrorEPCC iff both; a disallowed access raises
\* ACCESS_SYS_REGS and changes no register, an unknown register number raises
\* RI; an allowed read copies the register into cd, an allowed write copies
\* cs into the register.  No helper run in user mode without ACCESS_SYS_REGS
\* changes one of the seven protected registers.
C21_HwrAccess ==
    /\ last.op \in HwrOps =>
        LET name == C21_Name(last.rt)
        IN  IF name = "none"
            THEN exception_index = "EXCP_RI" /\ RegistersKept
            ELSE IF ~C21_Allowed(name, Pre)
            THEN /\ RaisedC2("CP2Ca_ACCESS_SYS_REGS", CP2HWR_BASE_INDEX + last.rt)
                 /\ RegistersKept
            ELSE IF last.op = "creadhwr"
            THEN WroteOnly(last.cd, Pre.chwr[name])
            ELSE /\ Succeeded
                 /\ cgpr = Pre.cgpr
                 /\ chwr = [Pre.chwr EXCEPT ![name] = get_readonly_capreg(Pre, last.cb)]
    /\ (last.op # "none" /\ ~Pre.kernel_mode
            /\ CAP_ACCESS_SYS_REGS \notin Pre.PCC.perms) =>
        \A h \in C21_Protected : chwr[h] = Pre.chwr[h]

\* A write to KCC in kernel mode through a PCC without ACCESS_SYS_REGS was
\* refused and KCC kept its value, which differs from the one offered.
C21_Witness ==
    /\ last.op = "cwritehwr"
    /\ C21_Name(last.rt) = "KCC"
    /\ Pre.kernel_mode
    /\ CAP_ACCESS_SYS_REGS \notin Pre.PCC.perms
    /\ get_readonly_capreg(Pre, last.cb) # Pre.chwr["KCC"]
    /\ RaisedC2("CP2Ca_ACCESS_SYS_REGS", CP2HWR_BASE_INDEX + last.rt)
    /\ chwr = Pre.chwr

\* ---- C22 ---------------------------------------------------------------
InPlaceOps == {"candperm", "csetoffset", "cincoffset", "csetaddr", "candaddr"}
C22_SealedSource == last.op \in InPlaceOps /\ CbCap.tag /\ ~CbUnsealed

\* The operand asks for no change of the source.
C22_Identity ==
    CASE last.op = "candperm" ->
            CbCap.perms \subseteq last.rt.perms /\ CbCap.uperms \subseteq last.rt.uperms
      [] last.op = "csetoffset" -> last.rt = CbCap.offset
      [] last.op = "cincoffset" -> last.rt = 0
      [] last.op = "csetaddr" -> last.rt = CbCursor
      [] last.op = "candaddr" -> BitAnd(CbCursor, last.rt) = CbCursor
      [] OTHER -> FALSE

\* C22 as stated: on a tagged sealed source each of the five operations
\* raises SEAL unless its operand asks for no change, and then copies the
\* source to cd without an exception.
C22_IdentityCopies ==
    C22_SealedSource =>
        IF C22_Identity THEN WroteOnly(last.cd, CbCap)
        ELSE RaisedC2("CP2Ca_SEAL", last.cb) /\ RegistersKept

\* C22, as the code has it: on a tagged sealed source IncOffset, SetAddr and
\* AndAddr raise SEAL unless the address stays as it is, and then copy the
\* source to cd; AndPerm and SetOffset raise SEAL whatever the operand.
C22_IdentityCopiesForAddress ==
    C22_SealedSource =>
        IF C22_Identity /\ last.op \in {"cincoffset", "csetaddr", "candaddr"}
        THEN WroteOnly(last.cd, CbCap)
        ELSE RaisedC2("CP2Ca_SEAL", last.cb) /\ RegistersKept

\* SetOffset to the offset a tagged sealed source already has raised SEAL.
C22_Witness ==
    /\ C22_SealedSource
    /\ last.op = "csetoffset"
    /\ last.rt = CbCap.offset
    /\ RaisedC2("CP2Ca_SEAL", last.cb)

\* ---- C23 ---------------------------------------------------------------
IntegerAccessOps == {"cload", "cstore"}
C23_Base == get_capreg_0_is_ddc(Pre, last.cb)
C23_Size == last.ct
C23_Addr == (C23_Base.base + C23_Base.offset + last.rt[1] + last.rt[2] + Word) % Word
C23_Sealed == C23_Base.otype <= CAP_MAX_SEALED_OTYPE \/ C23_Base.otype = CAP_OTYPE_SENTRY
C23_InBounds == C23_Addr >= C23_Base.base /\ C23_Addr + C23_Size <= C23_Base.top

\* Nothing but the exception state differs from the state before.
C23_OnlyRaised ==
    Env = [Pre EXCEPT !.exception_index = exception_index,
                      !.CP2_CapCause = CP2_CapCause,
                      !.CP0_BadVAddr = CP0_BadVAddr]

\* C23: an integer load or store through cb (DDC for index 0) at
\* addr = cb.cursor + rt + offset raises, first match first, TAG, SEAL,
\* PERM_LOAD or PERM_STORE, LENGTH when [addr, addr + size) is not within the
\* bounds, AdEL or AdES with BadVAddr = addr when addr is not a multiple of
\* size; otherwise it returns addr.  It changes no register in any case.
C23_IntegerAccess ==
    last.op \in IntegerAccessOps =>
        LET load == last.op = "cload"
        IN  /\ C23_OnlyRaised
            /\ IF ~C23_Base.tag THEN RaisedC2("CP2Ca_TAG", last.cb)
               ELSE IF C23_Sealed THEN RaisedC2("CP2Ca_SEAL", last.cb)
               ELSE IF load /\ CAP_PERM_LOAD \notin C23_Base.perms
                    THEN RaisedC2("CP2Ca_PERM_LD", last.cb)
               ELSE IF ~load /\ CAP_PERM_STORE \notin C23_Base.perms
                    THEN RaisedC2("CP2Ca_PERM_ST", last.cb)
               ELSE IF ~C23_InBounds THEN RaisedC2("CP2Ca_LENGTH", last.cb)
               ELSE IF C23_Addr % C23_Size # 0
                    THEN /\ exception_index = (IF load THEN "EXCP_AdEL" ELSE "EXCP_AdES")
                         /\ CP0_BadVAddr = C23_Addr
                         /\ CP2_CapCause = Pre.CP2_CapCause
               ELSE NothingChanged /\ last.ret = C23_Addr

\* A store through index 0, that is through DDC, to an address inside DDC's
\* bounds that is not a multiple of the size raised AdES.
C23_Witness ==
    /\ last.op = "cstore"
    /\ last.cb = 0
    /\ Pre.chwr["DDC"].tag
    /\ C23_InBounds
    /\ C23_Addr % C23_Size # 0
    /\ exception_index = "EXCP_AdES"
    /\ CP0_BadVAddr = C23_Addr

\* ---- C24 ---------------------------------------------------------------
CapStoreOps == {"csc", "cscc"}
C24_Base == get_capreg_0_is_ddc(Pre, last.cb)
C24_Stored == get_readonly_capreg(Pre, last.ct)
C24_Addr == (C24_Base.base + C24_Base.offset + last.rt[1] + last.rt[2] + Word) % Word
C24_Sealed == C24_Base.otype <= CAP_MAX_SEALED_OTYPE \/ C24_Base.otype = CAP_OTYPE_SENTRY
C24_InBounds ==
    C24_Addr >= C24_Base.base /\ C24_Addr + CHERI_CAP_SIZE <= C24_Base.top
C24_Local == C24_Stored.tag /\ CAP_PERM_GLOBAL \notin C24_Stored.perms

\* C24: a capability store of cs through cb (DDC for index 0) raises, first
\* match first, TAG, SEAL, PERM_STORE, PERM_STORE_CAP, PERM_STORE_LOCAL when
\* cs is tagged without GLOBAL and cb lacks STORE_LOCAL, LENGTH when the
\* capability-sized target is not within cb's bounds, AdES when it is not
\* capability-aligned; a store that raises leaves memory as it was, and a
\* conditional store past the checks writes iff the linked flag is set.  So a
\* tagged capability without GLOBAL reaches memory only through a capability
\* with STORE_LOCAL.
C24_CapStore ==
    last.op \in CapStoreOps =>
        /\ IF ~C24_Base.tag THEN RaisedC2("CP2Ca_TAG", last.cb)
           ELSE IF C24_Sealed THEN RaisedC2("CP2Ca_SEAL", last.cb)
           ELSE IF CAP_PERM_STORE \notin C24_Base.perms
                THEN RaisedC2("CP2Ca_PERM_ST", last.cb)
           ELSE IF CAP_PERM_STORE_CAP \notin C24_Base.perms
                THEN RaisedC2("CP2Ca_PERM_ST_CAP", last.cb)
           ELSE IF C24_Local /\ CAP_PERM_STORE_LOCAL \notin C24_Base.perms
                THEN RaisedC2("CP2Ca_PERM_ST_LC_CAP", last.cb)
           ELSE IF ~C24_InBounds THEN RaisedC2("CP2Ca_LENGTH", last.cb)
           ELSE IF C24_Addr % CHERI_CAP_SIZE # 0
                THEN exception_index = "EXCP_AdES" /\ CP0_BadVAddr = C24_Addr
           ELSE /\ Succeeded
                /\ IF last.op = "cscc" /\ Pre.linkedflag = 0
                   THEN mem = Pre.mem /\ last.ret = 0
                   ELSE /\ mem[C24_Addr].by = "csc"
                        /\ mem[C24_Addr].tag = C24_Stored.tag
                        /\ \A a \in MemLines \ {C24_Addr} : mem[a] = Pre.mem[a]
        /\ ~Succeeded => mem = Pre.mem
        /\ RegistersKept
        /\ (mem # Pre.mem /\ C24_Local) => CAP_PERM_STORE_LOCAL \in C24_Base.perms

\* A tagged capability without GLOBAL was offered to a capability that has
\* STORE and STORE_CAP but not STORE_LOCAL, at an address in bounds and
\* aligned: PERM_STORE_LOCAL was raised and memory kept.
C24_Witness ==
    /\ last.op = "csc"
    /\ C24_Local
    /\ C24_Base.tag /\ ~C24_Sealed
    /\ {CAP_PERM_STORE, CAP_PERM_STORE_CAP} \subseteq C24_Base.perms
    /\ CAP_PERM_STORE_LOCAL \notin C24_Base.perms
    /\ C24_InBounds /\ C24_Addr % CHERI_CAP_SIZE = 0
    /\ Pre.mem[C24_Addr] # MemLine(TRUE, C24_Stored, "csc")
    /\ RaisedC2("CP2Ca_PERM_ST_LC_CAP", last.cb)
    /\ mem = Pre.mem

\* ---- C25 ---------------------------------------------------------------
CapLoadOps == {"clc", "cllc"}
C25_Base == get_capreg_0_is_ddc(Pre, last.cb)
C25_Addr == (C25_Base.base + C25_Base.offset + last.rt[1] + last.rt[2] + Word) % Word
C25_LoadInhibit == last.ct
C25_InMemory == decompress_128cap(Pre.mem[C25_Addr].pesbt, Pre.mem[C25_Addr].cursor)
C25_ChecksPass ==
    /\ C25_Base.tag
    /\ ~(C25_Base.otype <= CAP_MAX_SEALED_OTYPE \/ C25_Base.otype = CAP_OTYPE_SENTRY)
    /\ CAP_PERM_LOAD \in C25_Base.perms
    /\ C25_Addr >= C25_Base.base /\ C25_Addr + CHERI_CAP_SIZE <= C25_Base.top
    /\ C25_Addr % CHERI_CAP_SIZE = 0

\* C25: a capability load through cb that passes the checks (tag, seal, LOAD,
\* bounds, alignment) raises nothing and writes to cd the fields held in
\* memory, with the tag set iff the memory tag is set, the load-inhibit flag
\* of the translation is clear and cb has LOAD_CAP; without LOAD_CAP, or
\* with load-inhibit, cd receives the same fields with tag 0.
C25_CapLoad ==
    last.op \in CapLoadOps =>
        /\ Succeeded <=> C25_ChecksPass
        /\ Succeeded =>
            /\ WroteOnly(last.cd,
                   [C25_InMemory EXCEPT !.tag =
                       /\ Pre.mem[C25_Addr].tag
                       /\ ~C25_LoadInhibit
                       /\ CAP_PERM_LOAD_CAP \in C25_Base.perms])
            /\ mem = Pre.mem
        /\ \A r \in GPRegs :
            (cgpr[r].tag /\ cgpr[r] # Pre.cgpr[r]) =>
                /\ Pre.mem[C25_Addr].tag
                /\ ~C25_LoadInhibit
                /\ CAP_PERM_LOAD_CAP \in C25_Base.perms

\* A load of a tagged line through a capability with LOAD but without
\* LOAD_CAP, load-inhibit clear, gave cd the line's fields without the tag.
C25_Witness ==
    /\ last.op = "clc"
    /\ last.cd # 0
    /\ C25_ChecksPass
    /\ CAP_PERM_LOAD_CAP \notin C25_Base.perms
    /\ ~C25_LoadInhibit
    /\ Pre.mem[C25_Addr].tag
    /\ Succeeded
    /\ cgpr[last.cd] = [C25_InMemory EXCEPT !.tag = FALSE]
    /\ cgpr[last.cd].perms # {}

\* ---- C26 ---------------------------------------------------------------
\* The address of the capability store or load that record rec describes.
CapAddr(rec) ==
    LET base == get_capreg_0_is_ddc(rec.pre, rec.cb)
    IN  (base.base + base.offset + rec.rt[1] + rec.rt[2] + Word) % Word

\* The last two instructions were a capability store and a capability load
\* of the same address, the load through a capability with LOAD_CAP and
\* with load-inhibit clear.
C26_StoreThenLoad ==
    /\ prev.op = "csc" /\ last.op = "clc" /\ Succeeded
    /\ CapAddr(prev) = CapAddr(last)
    /\ CAP_PERM_LOAD_CAP \in get_capreg_0_is_ddc(Pre, last.cb).perms
    /\ ~last.ct

C26_Stored == get_readonly_capreg(prev.pre, prev.ct)

C27_Overlaps(a, addr, len) == a < addr + len /\ addr < a + CHERI_CAP_SIZE
C27_StoreAddr == (Pre.chwr["DDC"].base + Pre.chwr["DDC"].offset + last.rt[1]) % Word

\* C27: an integer store through DDC that passes the check clears the tag of
\* every capability-sized line that [addr, addr + len) overlaps and leaves
\* the other lines as they were; whatever the stores before it, a line last
\* written by an integer store has no tag and a line last written by a
\* capability store has the tag of the value stored; a capability load of a
\* line last written by an integer store delivers the words in memory with
\* tag 0 and leaves memory as it was.
C27_IntegerStoreClearsTags ==
    /\ (last.op = "sd" /\ Succeeded) =>
        \A a \in MemLines :
            IF C27_Overlaps(a, C27_StoreAddr, last.ct)
            THEN ~mem[a].tag /\ mem[a].by = "store"
            ELSE mem[a] = Pre.mem[a]
    /\ \A a \in MemLines : mem[a].by = "store" => ~mem[a].tag
    /\ (last.op = "csc" /\ Succeeded) =>
        mem[CapAddr(last)].tag = get_readonly_capreg(Pre, last.ct).tag
            /\ mem[CapAddr(last)].by = "csc"
    /\ (last.op = "clc" /\ Succeeded /\ Pre.mem[CapAddr(last)].by = "store") =>
        /\ ~cgpr[last.cd].tag
        /\ cgpr[last.cd] = decompress_128cap(mem[CapAddr(last)].pesbt,
                                             mem[CapAddr(last)].cursor)
        /\ mem = Pre.mem

\* A tagged capability was stored to a line, an integer store then wrote
\* into the line, and a load through a capability with LOAD_CAP delivered
\* the words of the line without the tag.
C27_Witness ==
    /\ last.op = "clc" /\ Succeeded
    /\ prev.op = "sd"
    /\ C27_Overlaps(CapAddr(last), (prev.pre.chwr["DDC"].base
                        + prev.pre.chwr["DDC"].offset + prev.rt[1]) % Word, prev.ct)
    /\ prev.pre.mem[CapAddr(last)].by = "csc"
    /\ prev.pre.mem[CapAddr(last)].tag
    /\ CAP_PERM_LOAD_CAP \in get_capreg_0_is_ddc(Pre, last.cb).perms
    /\ ~last.ct
    /\ ~cgpr[last.cd].tag
    /\ mem[CapAddr(last)].pesbt.perms # {}

\* ---- C28 ---------------------------------------------------------------
\* Instructions whose cb field, and whose ct field, names a capability
\* register that is read; and those of them where index 0 names DDC.
C28_CbOps ==
    {"candperm", "ccleartag", "cfromptr", "cincbase", "csetlen", "cincoffset",
     "csetaddr", "candaddr", "csetoffset", "cmovz", "cmovn", "cjalr", "cjr",
     "cseal", "ccseal", "csealentry", "cunseal", "cbuildcap", "ccopytype",
     "csetbounds", "csetboundsexact", "ctoptr", "cloadlinked", "cbez", "cbnz",
     "cbts", "cbtu", "ccall", "ccall_notrap", "ceq", "cne", "clt", "cle",
     "cltu", "cleu", "cexeq", "cnexeq", "ctestsubset", "cload", "cstore",
     "cwritehwr", "clc", "cllc", "csc", "cscc", "cstorecond", "cloadtags",
     "ccheckperm"}
C28_CtOps ==
    {"cseal", "ccseal", "cunseal", "cbuildcap", "ccopytype", "ctoptr", "ccall",
     "ccall_notrap", "ceq", "cne", "clt", "cle", "cltu", "cleu", "cexeq",
     "cnexeq", "ctestsubset", "csc", "cscc"}
C28_DdcCb ==
    {"cfromptr", "cbuildcap", "cload", "cstore", "cloadlinked", "cstorecond",
     "clc", "cllc", "csc", "cscc", "cloadtags"}
C28_DdcCt == {"ctoptr"}

\* The last instruction run again from env with cb and ct in its two source
\* fields.
C28_Rerun(env, cb, ct) ==
    CASE last.op = "candperm" -> helper_candperm(env, last.cd, cb, last.rt)
      [] last.op = "ccheckperm" -> helper_ccheckperm(env, cb, last.rt)
      [] last.op = "ccleartag" -> helper_ccleartag(env, last.cd, cb)
      [] last.op = "cfromptr" -> helper_cfromptr(env, last.cd, cb, last.rt)
      [] last.op = "cincbase" -> helper_cincbase(env, last.cd, cb, last.rt)
      [] last.op = "csetlen" -> helper_csetlen(env, last.cd, cb, last.rt)
      [] last.op = "cincoffset" -> helper_cincoffset(env, last.cd, cb, last.rt)
      [] last.op = "csetaddr" -> helper_csetaddr(env, last.cd, cb, last.rt)
      [] last.op = "candaddr" -> helper_candaddr(env, last.cd, cb, last.rt)
      [] last.op = "csetoffset" -> helper_csetoffset(env, last.cd, cb, last.rt)
      [] last.op = "cmovz" -> helper_cmovz(env, last.cd, cb, last.rt)
      [] last.op = "cmovn" -> helper_cmovn(env, last.cd, cb, last.rt)
      [] last.op = "cjalr" -> helper_cjalr(env, last.cd, cb)
      [] last.op = "cjr" -> helper_cjr(env, cb)
      [] last.op = "cseal" -> helper_cseal(env, last.cd, cb, ct)
      [] last.op = "ccseal" -> helper_ccseal(env, last.cd, cb, ct)
      [] last.op = "csealentry" -> helper_csealentry(env, last.cd, cb)
      [] last.op = "cunseal" -> helper_cunseal(env, last.cd, cb, ct)
      [] last.op = "cbuildcap" -> helper_cbuildcap(env, last.cd, cb, ct)
      [] last.op = "ccopytype" -> helper_ccopytype(env, last.cd, cb, ct)
      [] last.op = "csetbounds" -> helper_csetbounds(env, last.cd, cb, last.rt)
      [] last.op = "csetboundsexact" ->
            helper_csetboundsexact(env, last.cd, cb, last.rt)
      [] last.op = "ctoptr" -> helper_ctoptr(env, cb, ct)
      [] last.op = "cloadlinked" -> helper_cloadlinked(env, cb, last.rt)
      [] last.op = "cbez" -> helper_cbez(env, cb)
      [] last.op = "cbnz" -> helper_cbnz(env, cb)
      [] last.op = "cbts" -> helper_cbts(env, cb)
      [] last.op = "cbtu" -> helper_cbtu(env, cb)
      [] last.op = "ccall" -> helper_ccall(env, cb, ct)
      [] last.op = "ccall_notrap" -> helper_ccall_notrap(env, cb, ct)
      [] last.op = "ceq" -> helper_ceq(env, cb, ct)
      [] last.op = "cne" -> helper_cne(env, cb, ct)
      [] last.op = "clt" -> helper_clt(env, cb, ct)
      [] last.op = "cle" -> helper_cle(env, cb, ct)
      [] last.op = "cltu" -> helper_cltu(env, cb, ct)
      [] last.op = "cleu" -> helper_cleu(env, cb, ct)
      [] last.op = "cexeq" -> helper_cexeq(env, cb, ct)
      [] last.op = "cnexeq" -> helper_cnexeq(env, cb, ct)
      [] last.op = "ctestsubset" -> helper_ctestsubset(env, cb, ct)
      [] last.op = "cload" -> helper_cload(env, cb, last.rt[1], last.rt[2], last.ct)
      [] last.op = "cstore" -> helper_cstore(env, cb, last.rt[1], last.rt[2], last.ct)
      [] last.op = "cwritehwr" -> helper_cwritehwr(env, cb, last.rt)
      [] last.op = "clc" ->
            helper_clc_without_tcg(env, last.cd, cb, last.rt[1], last.rt[2], last.ct)
      [] last.op = "cllc" -> helper_cllc_without_tcg(env, last.cd, cb, last.ct)
      [] last.op = "csc" ->
            helper_csc_without_tcg(env, ct, cb, last.rt[1], last.rt[2])
      [] last.op = "cscc" -> helper_cscc_without_tcg(env, ct, cb)
      [] last.op = "cstorecond" -> helper_cstorecond(env, cb, last.ct)
      [] last.op = "cloadtags" -> helper_cloadtags(env, cb, last.rt)

\* The registers other than 0 that the last instruction does not name.
C28_Spare ==
    {k \in {1, 2} :
        /\ k # last.cd
        /\ last.op \in C28_CbOps => k # last.cb
        /\ last.op \in C28_CtOps => k # last.ct}

\* r is what the last instruction did, but for register k and for k in
\* place of 0 as the register an exception names.
C28_Same(k, r) ==
    /\ r.ret = last.ret
    /\ [r.env EXCEPT !.cgpr[k] = cgpr[k],
                     !.CP2_CapCause.reg = IF @ = k THEN 0 ELSE @] = Env

C28_CbValue ==
    IF last.op \in C28_DdcCb THEN Pre.chwr["DDC"] ELSE null_capability
C28_CtValue ==
    IF last.op \in C28_DdcCt THEN Pre.chwr["DDC"] ELSE null_capability

\* C28: an instruction with index 0 in a source operand does what it does
\* with a register in that operand that holds DDC, when the operand is the
\* base of a load or store (cload, cstore, cloadlinked, cstorecond, clc,
\* cllc, csc, cscc, cloadtags), FromPtr's cb, ToPtr's ct or BuildCap's cb,
\* and what it does with a register that holds the null capability in every
\* other source operand.
C28_IndexZero ==
    /\ (last.op \in C28_CbOps /\ last.cb = 0) =>
        \A k \in C28_Spare :
            C28_Same(k, C28_Rerun([Pre EXCEPT !.cgpr[k] = C28_CbValue], k, last.ct))
    /\ (last.op \in C28_CtOps /\ last.ct = 0) =>
        \A k \in C28_Spare :
            C28_Same(k, C28_Rerun([Pre EXCEPT !.cgpr[k] = C28_CtValue], last.cb, k))

\* A csc with index 0 as base and as the register stored went through a
\* tagged DDC and wrote the null capability.
C28_Witness ==
    /\ last.op = "csc" /\ last.cb = 0 /\ last.ct = 0
    /\ Succeeded
    /\ Pre.chwr["DDC"].tag
    /\ C28_Spare # {}
    /\ Pre.mem[CapAddr(last)].tag
    /\ ~mem[CapAddr(last)].tag
    /\ mem[CapAddr(last)].pesbt = cr_pesbt_xored_for_mem(null_capability)

\* ---- C29 ---------------------------------------------------------------
C29_Ordered(c) == c.tag => c.base <= c.top /\ c.top <= CAP_MAX_TOP

\* C29: every tagged capability in a general-purpose capability register, a
\* hardware register, PCC or the branch target has base <= top <= 2^64.
C29_TaggedBoundsOrdered ==
    /\ \A i \in DOMAIN cgpr : C29_Ordered(cgpr[i])
    /\ \A h \in DOMAIN chwr : C29_Ordered(chwr[h])
    /\ C29_Ordered(PCC)
    /\ C29_Ordered(CapBranchTarget)

\* The registers held ordered bounds before the last instruction: the
\* instruction itself wrote what breaks the order.
C29_OrderedBefore ==
    /\ \A i \in DOMAIN Pre.cgpr : C29_Ordered(Pre.cgpr[i])
    /\ \A h \in DOMAIN Pre.chwr : C29_Ordered(Pre.chwr[h])
    /\ C29_Ordered(Pre.PCC)
    /\ C29_Ordered(Pre.CapBranchTarget)

\* What BuildCap does about the order of the bounds it takes from ct: no
\* instruction other than a BuildCap whose ct has base > top breaks the
\* order, and such a BuildCap, when it raises nothing, does.
C29_OnlyBuildCapBreaksOrder ==
    /\ (C29_OrderedBefore /\ ~C29_TaggedBoundsOrdered) =>
        /\ last.op = "cbuildcap"
        /\ get_readonly_capreg(Pre, last.ct).base > get_readonly_capreg(Pre, last.ct).top
    /\ (last.op = "cbuildcap" /\ Succeeded /\ last.cd # 0
            /\ get_readonly_capreg(Pre, last.ct).base
                 > get_readonly_capreg(Pre, last.ct).top) =>
        cgpr[last.cd].tag /\ cgpr[last.cd].base > cgpr[last.cd].top

C29_Witness ==
    /\ last.op = "cbuildcap" /\ Succeeded /\ last.cd # 0
    /\ C29_OrderedBefore
    /\ ~get_readonly_capreg(Pre, last.ct).tag
    /\ cgpr[last.cd].tag
    /\ cgpr[last.cd].base > cgpr[last.cd].top

\* ---- C30 ---------------------------------------------------------------
C30_Writable == 0..31 \cup {33, 34, 35, 37}

\* The state but for the register of index n, which is as it was before the
\* last request.
C30_AddressedRestored ==
    CASE last.rt < 32 -> [Env EXCEPT !.cpu.gpr[last.rt] = Pre.cpu.gpr[last.rt]]
      [] last.rt = 33 -> [Env EXCEPT !.cpu.LO = Pre.cpu.LO]
      [] last.rt = 34 -> [Env EXCEPT !.cpu.HI = Pre.cpu.HI]
      [] last.rt = 35 -> [Env EXCEPT !.CP0_BadVAddr = Pre.CP0_BadVAddr]
      [] last.rt = 37 ->
            [Env EXCEPT !.cpu.PC = Pre.cpu.PC,
                        !.cpu.hflags =
                            IF "MIPS_HFLAG_M16" \in Pre.cpu.hflags
                            THEN @ \cup {"MIPS_HFLAG_M16"}
                            ELSE @ \ {"MIPS_HFLAG_M16"}]
      [] OTHER -> Env

\* C30: a write of an integer register with index above 72 changes nothing
\* and reports 0 bytes; a read of index 72 or above, or of 38..71 without an
\* FPU, returns 0 bytes; a write of index 0..31, 33, 34, 35 or 37 changes
\* only the addressed register (for 37 the PC and the ISA-mode flag) and a
\* read of the same index right after it returns the value written; a write
\* of a capability register changes no state at all.
C30_DebuggerInterface ==
    /\ (last.op = "gdb_write_register" /\ last.rt > 72) =>
        last.ret.len = 0 /\ Env = Pre
    /\ (last.op = "gdb_read_register"
            /\ (last.rt >= 72
                \/ (last.rt >= 38 /\ last.rt <= 71 /\ ~gdb_fpu_present(Pre)))) =>
        last.ret.len = 0 /\ Env = Pre
    /\ (last.op = "gdb_write_register" /\ last.rt \in C30_Writable) =>
        last.ret.len = sizeof_target_ulong /\ C30_AddressedRestored = Pre
    /\ (last.op = "gdb_read_register" /\ prev.op = "gdb_write_register"
            /\ last.rt = prev.rt /\ last.rt \in C30_Writable) =>
        /\ last.ret = [len |-> sizeof_target_ulong, mem_buf |-> prev.ct]
        /\ Env = Pre
    /\ last.op = "gdb_set_cheri_reg" => Env = Pre

\* The debugger wrote an odd value to index 37 over an even PC and read it
\* back.
C30_Witness ==
    /\ last.op = "gdb_read_register" /\ prev.op = "gdb_write_register"
    /\ last.rt = 37 /\ prev.rt = 37
    /\ prev.ct % 2 = 1
    /\ "MIPS_HFLAG_M16" \notin prev.pre.cpu.hflags
    /\ "MIPS_HFLAG_M16" \in cpu.hflags
    /\ cpu.PC = prev.ct - 1
    /\ last.ret.mem_buf = prev.ct

\* ---- C31 ---------------------------------------------------------------
C31_Ops ==
    {"ccheck_pc", "ccheck_btarget", "ccheck_load", "ccheck_store",
     "ccheck_load_right", "ccheck_store_right", "cload", "cstore"}

\* The capability the last check or access was made against.
C31_Checked ==
    IF last.op \in {"ccheck_pc", "ccheck_btarget"} THEN Pre.PCC
    ELSE IF last.op \in {"cload", "cstore"} THEN get_capreg_0_is_ddc(Pre, last.cb)
    ELSE Pre.chwr["DDC"]

\* C31: the PC check, the branch-target check, the load and store checks
\* against DDC with their right variants, and cload and cstore never raise
\* TYPE, whatever the object types of PCC and of the capability checked.
C31_NoTypeTrap ==
    last.op \in C31_Ops =>
        ~(exception_index = "EXCP_C2E" /\ CP2_CapCause.cause = "CP2Ca_TYPE")

\* A load through a register other than 0 and a check against DDC went
\* through while PCC had another object type than the capability used.
C31_Witness ==
    /\ last.op \in {"cload", "ccheck_store_right"}
    /\ last.op = "cload" => last.cb # 0
    /\ Succeeded
    /\ ~caps_have_same_type(Pre.PCC, C31_Checked)
    /\ Pre.PCC.tag

\* ---- C32 ---------------------------------------------------------------
C32_Source == get_readonly_capreg(Pre, last.cb)
C32_Within ==
    /\ last.op \in {"csetbounds", "csetboundsexact"}
    /\ C32_Source.tag /\ ~is_cap_sealed(C32_Source)
    /\ C32_Source.base <= cap_get_cursor(C32_Source)
    /\ cap_get_cursor(C32_Source) + last.rt <= cap_get_top65(C32_Source)

\* C32: SetBounds and SetBoundsExact of a tagged unsealed source with
\* base <= cursor and cursor + len <= top do not raise LENGTH, a source with
\* top 2^64 and a request that ends at 2^64 included.
C32_NoLengthWithinBounds ==
    C32_Within => ~RaisedC2("CP2Ca_LENGTH", last.cb)

\* What the code does: within the bounds LENGTH is raised exactly for the
\* requests that end at 2^64.
C32_LengthOnlyAtMaxTop ==
    C32_Within =>
        (RaisedC2("CP2Ca_LENGTH", last.cb)
            <=> cap_get_cursor(C32_Source) + last.rt = CAP_MAX_TOP)

C32_Witness ==
    /\ C32_Within
    /\ cap_get_top65(C32_Source) = CAP_MAX_TOP
    /\ cap_get_cursor(C32_Source) + last.rt = CAP_MAX_TOP
    /\ last.rt > 0
    /\ RaisedC2("CP2Ca_LENGTH", last.cb)

\* ---- C33 ---------------------------------------------------------------
\* Seal, Unseal and CCall: cs is in the cb field of the record, the second
\* operand in the ct field.
C33_Ops == {"cseal", "ccseal", "cunseal", "ccall", "ccall_notrap"}
C33_Cs == get_readonly_capreg(Pre, last.cb)
C33_Ct == get_readonly_capreg(Pre, last.ct)

\* c does not pass the seal check the last instruction makes of its first,
\* or of its second, operand.
C33_SealFails(c, first) ==
    IF last.op \in {"cseal", "ccseal"} THEN is_cap_sealed(c)
    ELSE IF last.op = "cunseal"
         THEN (IF first THEN cap_is_unsealed(c) ELSE ~cap_is_unsealed(c))
    ELSE ~cap_is_sealed_with_type(c)

C33_BothFail ==
    /\ last.op \in C33_Ops
    /\ ~C33_Cs.tag \/ C33_SealFails(C33_Cs, TRUE)
    /\ ~C33_Ct.tag \/ C33_SealFails(C33_Ct, FALSE)

\* C33 as stated: when both operands fail a check the exception names cs.
C33_FirstOperandNamed ==
    C33_BothFail => exception_index = "EXCP_C2E" /\ CP2_CapCause.reg = last.cb

\* C33, amended: the checks go by kind, cs before the second operand within
\* a kind.  When both operands fail a check, an untagged cs is named with
\* TAG; else an untagged second operand is named with TAG (CCSeal raises
\* nothing and copies cs); else cs is named with SEAL (CCSeal with the
\* second operand's cursor at all ones raises nothing and copies cs).
C33_ChecksByKind ==
    C33_BothFail =>
        IF ~C33_Cs.tag THEN RaisedC2("CP2Ca_TAG", last.cb)
        ELSE IF ~C33_Ct.tag
             THEN IF last.op = "ccseal"
                  THEN Succeeded /\ (last.cd # 0 => cgpr[last.cd] = C33_Cs)
                  ELSE RaisedC2("CP2Ca_TAG", last.ct)
        ELSE IF last.op = "ccseal" /\ cap_get_cursor(C33_Ct) = UINT64_MAX
             THEN Succeeded /\ (last.cd # 0 => cgpr[last.cd] = C33_Cs)
        ELSE RaisedC2("CP2Ca_SEAL", last.cb)

\* cs was tagged and failed the seal check, the second operand was another
\* register and untagged, and the exception named the second operand.
C33_Witness ==
    /\ C33_BothFail
    /\ last.op \in {"cseal", "cunseal", "ccall"}
    /\ C33_Cs.tag /\ C33_SealFails(C33_Cs, TRUE)
    /\ ~C33_Ct.tag
    /\ last.cb # last.ct
    /\ RaisedC2("CP2Ca_TAG", last.ct)

\* ---- C35 ---------------------------------------------------------------
C35_Cs == get_readonly_capreg(Pre, last.cb)
C35_Undefined == last.rt.gap \/ last.rt.high

\* C35 as stated: AndPerm of a tagged unsealed source and CheckPerm of a
\* tagged cs raise USRDEFINE when the argument has an undefined bit set.
C35_UndefinedBitsRaise ==
    /\ (last.op = "candperm" /\ C35_Cs.tag /\ ~is_cap_sealed(C35_Cs)
            /\ C35_Undefined) => RaisedC2("CP2Ca_USRDEFINE", last.cb)
    /\ (last.op = "ccheckperm" /\ C35_Cs.tag /\ C35_Undefined) =>
        RaisedC2("CP2Ca_USRDEFINE", last.cb)

\* C35, amended: AndPerm never raises USRDEFINE and takes no notice of the
\* undefined bits of its argument.  CheckPerm raises TAG if cs is untagged,
\* else USRDEFINE if a requested permission or user permission is missing
\* from cs or a bit above the user permissions is set, and else completes
\* and changes no state; bits between the two fields are ignored.
C35_PermArgument ==
    /\ last.op = "candperm" =>
        /\ ~(exception_index = "EXCP_C2E" /\ CP2_CapCause.cause = "CP2Ca_USRDEFINE")
        /\ (C35_Cs.tag /\ ~is_cap_sealed(C35_Cs)) =>
            /\ Succeeded
            /\ last.cd # 0 =>
                cgpr[last.cd] = [C35_Cs EXCEPT !.perms = @ \cap last.rt.perms,
                                               !.uperms = @ \cap last.rt.uperms]
    /\ last.op = "ccheckperm" =>
        IF ~C35_Cs.tag THEN RaisedC2("CP2Ca_TAG", last.cb)
        ELSE IF ~(last.rt.perms \subseteq C35_Cs.perms
                    /\ last.rt.uperms \subseteq C35_Cs.uperms) \/ last.rt.high
             THEN RaisedC2("CP2Ca_USRDEFINE", last.cb) /\ RegistersKept
        ELSE Succeeded /\ Env = Pre

\* An AndPerm whose argument had a bit above the user permissions went
\* through and wrote the intersection.
C35_Witness ==
    /\ last.op = "candperm" /\ last.rt.high /\ last.cd # 0
    /\ Succeeded
    /\ cgpr[last.cd].perms = C35_Cs.perms \cap last.rt.perms
    /\ cgpr[last.cd].perms # C35_Cs.perms

\* ---- C34 ---------------------------------------------------------------
C34_Cs == get_readonly_capreg(Pre, last.cb)
C34_Ct == get_readonly_capreg(Pre, last.ct)

\* cs is sealed with a user otype and ct is a tagged unsealed capability
\* with UNSEAL whose cursor is that otype and lies in its bounds.
C34_Authorised ==
    /\ last.op = "cunseal"
    /\ C34_Cs.tag /\ cap_is_sealed_with_type(C34_Cs)
    /\ C34_Ct.tag /\ cap_is_unsealed(C34_Ct)
    /\ cap_get_cursor(C34_Ct) = C34_Cs.otype
    /\ cap_is_in_bounds(C34_Ct, cap_get_cursor(C34_Ct), 1)
    /\ CAP_PERM_UNSEAL \in C34_Ct.perms

\* C34: Unseal of a capability sealed with any otype that Seal accepts,
\* 0..CAP_MAX_SEALED_OTYPE, succeeds under an authorising ct.
C34_SealedCanBeUnsealed == C34_Authorised => Succeeded

\* What the code does: such an Unseal succeeds below CAP_MAX_SEALED_OTYPE
\* and raises LENGTH naming ct at CAP_MAX_SEALED_OTYPE.
C34_UnsealBelowMaxOtype ==
    C34_Authorised =>
        IF C34_Cs.otype < CAP_MAX_SEALED_OTYPE THEN Succeeded
        ELSE RaisedC2("CP2Ca_LENGTH", last.ct)

\* Seal accepts CAP_MAX_SEALED_OTYPE.
C34_SealAtMaxOtype ==
    /\ last.op = "cseal" /\ Succeeded /\ last.cd # 0
    /\ cgpr[last.cd].tag
    /\ cgpr[last.cd].otype = CAP_MAX_SEALED_OTYPE

C34_Witness ==
    /\ C34_Authorised
    /\ C34_Cs.otype = CAP_MAX_SEALED_OTYPE
    /\ RaisedC2("CP2Ca_LENGTH", last.ct)

\* ------------------------------------------------------------------ C36
\* The store in flight or just ended: its line, the value stored and the
\* words of a line.
C36_Store == last.op \in StoreStatements \cup {"store_cap_to_memory:fault"}
C36_Line == LineOf(last.rt)
C36_Value == get_readonly_capreg(Pre, last.ct)
C36_Words(line) == <<line.pesbt, line.cursor>>
C36_NewWords ==
    <<IF C36_Value.tag THEN compress_128cap(C36_Value)
      ELSE cr_pesbt_xored_for_mem(C36_Value),
      cap_get_cursor(C36_Value)>>

\* A set tag over words that are neither the capability being stored nor a
\* capability the line held, tagged, before the store.
C36_Torn ==
    /\ C36_Store
    /\ mem[C36_Line].tag
    /\ C36_Words(mem[C36_Line]) # C36_NewWords
    /\ ~(Pre.mem[C36_Line].tag
         /\ C36_Words(mem[C36_Line]) = C36_Words(Pre.mem[C36_Line]))

\* C36 as stated: at no point of a capability store, one aborted by a fault
\* included, does memory hold a set tag over a partially written capability.
\* Refuted: the tag is updated first, so between the tag update and the last
\* data word the set tag lies over the words the line held before.
C36_NeverTorn == ~C36_Torn

\* C36, amended: the tag update comes before the data words (when a word of
\* the line has been written the tag is already that of the value stored);
\* a fault of the tag update leaves memory and tags as they were and ends
\* the store; the data words take no fault; so once the store has ended,
\* completed or aborted, no set tag lies over a partially written
\* capability, and a completed store has done what the store as a whole does.
C36_TagBeforeData ==
    /\ (C36_Store /\ C36_Words(mem[C36_Line]) # C36_Words(Pre.mem[C36_Line]))
           => /\ last.op # "store_cap_to_memory:fault"
              /\ mem[C36_Line].tag = C36_Value.tag
    /\ last.op = "store_cap_to_memory:fault"
           => /\ mem = Pre.mem
              /\ exception_index # "EXCP_NONE"
    /\ last.op \in {"store_cap_to_memory:cursor", "store_cap_to_memory:fault"}
           => ~C36_Torn
    /\ last.op = "store_cap_to_memory:cursor"
           => /\ mem = store_cap_to_memory(Pre, last.ct, last.rt).env.mem
              /\ statcounters =
                     store_cap_to_memory(Pre, last.ct, last.rt).env.statcounters

\* A tagged capability has been stored, whole, over a line that held
\* other words without a tag.
C36_Witness ==
    /\ last.op = "store_cap_to_memory:cursor"
    /\ C36_Value.tag
    /\ ~Pre.mem[C36_Line].tag
    /\ C36_Words(Pre.mem[C36_Line]) # C36_NewWords
    /\ mem[C36_Line].tag
    /\ C36_Words(mem[C36_Line]) = C36_NewWords

\* ------------------------------------------------------------------ C37
\* C37: for every cd and cb, cd = cb included, a successful Jalr returns as
\* branch address the cursor cb held before the instruction, which is the
\* cursor of the CapBranchTarget it installs; the link never leaks into the
\* returned address.
C37_ReturnsTargetCursor ==
    (last.op = "cjalr" /\ Succeeded)
        => /\ last.ret = cap_get_cursor(CbCap)
           /\ last.ret = cap_get_cursor(CapBranchTarget)

\* What the code does: CapBranchTarget is cb as it was, and the address is
\* returned right when the link is not written over cb; with cd = cb the
\* address returned is the cursor of the link.
C37_LinkLeaksOnlyWhenAliased ==
    (last.op = "cjalr" /\ Succeeded)
        => /\ cap_get_cursor(CapBranchTarget) = cap_get_cursor(CbCap)
           /\ last.cd # last.cb => last.ret = cap_get_cursor(CbCap)
           /\ last.cd = last.cb => last.ret = cap_get_cursor(C10_Link)

\* A Jalr with cd = cb whose target is not the address of the link.
C37_Witness ==
    /\ last.op = "cjalr" /\ Succeeded
    /\ last.cd = last.cb
    /\ cap_get_cursor(CbCap) # cap_get_cursor(C10_Link)
    /\ last.ret # cap_get_cursor(CbCap)

\* ------------------------------------------------------------------ C38
C38_Called == last.op = "ccall_notrap" /\ Succeeded
C38_Jumped == last.op \in {"cjr", "cjalr", "ccall_notrap"} /\ Succeeded

\* C38: for every cs and cb, cs = IDC included, a successful CCall installs
\* as CapBranchTarget the unsealed value cs held before the instruction and
\* returns that value's cursor, while IDC receives the unsealed value cb held
\* before; so after every successful Jr, Jalr or CCall, CapBranchTarget is
\* tagged, unsealed and has EXECUTE.
C38_CallInstallsCs ==
    /\ C38_Called
           => /\ CapBranchTarget = cap_set_unsealed(CallCs)
              /\ last.ret = cap_get_cursor(CallCs)
              /\ cgpr[CP2CAP_IDC] = cap_set_unsealed(CallCb)
    /\ C38_Jumped
           => /\ CapBranchTarget.tag
              /\ cap_is_unsealed(CapBranchTarget)
              /\ CAP_PERM_EXECUTE \in CapBranchTarget.perms

\* What the code does: IDC always receives unsealed cb; the target and the
\* returned address are those of cs unless cs is IDC, and then they are
\* those of cb, a capability without EXECUTE.  Jr and Jalr install a
\* tagged, unsealed target with EXECUTE.
C38_TargetIsCbWhenCsIsIdc ==
    /\ C38_Called
           => /\ cgpr[CP2CAP_IDC] = cap_set_unsealed(CallCb)
              /\ CapBranchTarget.tag /\ cap_is_unsealed(CapBranchTarget)
              /\ last.cb # CP2CAP_IDC
                     => /\ CapBranchTarget = cap_set_unsealed(CallCs)
                        /\ last.ret = cap_get_cursor(CallCs)
                        /\ CAP_PERM_EXECUTE \in CapBranchTarget.perms
              /\ last.cb = CP2CAP_IDC
                     => /\ CapBranchTarget = cap_set_unsealed(CallCb)
                        /\ last.ret = cap_get_cursor(CallCb)
                        /\ CAP_PERM_EXECUTE \notin CapBranchTarget.perms
    /\ (last.op \in {"cjr", "cjalr"} /\ Succeeded)
           => /\ CapBranchTarget.tag
              /\ cap_is_unsealed(CapBranchTarget)
              /\ CAP_PERM_EXECUTE \in CapBranchTarget.perms

\* A call through the code capability in IDC has gone through.
C38_Witness ==
    /\ C38_Called
    /\ last.cb = CP2CAP_IDC
    /\ CAP_PERM_EXECUTE \in CallCs.perms
    /\ CapBranchTarget # cap_set_unsealed(CallCs)

\* ------------------------------------------------------------------ C39
C39_LinkOps == {"cloadlinked", "cllc"}
C39_Cb == get_capreg_0_is_ddc(Pre, last.cb)

\* The checks of a load-linked: those of loading last.rt bytes at cb's cursor.
C39_LoadChecks ==
    /\ C39_Cb.tag
    /\ ~is_cap_sealed(C39_Cb)
    /\ CAP_PERM_LOAD \in C39_Cb.perms
    /\ cap_is_in_bounds(C39_Cb, cap_get_cursor(C39_Cb), last.rt)
    /\ align_of(last.rt, cap_get_cursor(C39_Cb)) = 0

C39_FlagFollowsChecks ==
    last.op \in C39_LinkOps => linkedflag = (IF C39_LoadChecks THEN 1 ELSE 0)

C39_StoreFollowsFlag ==
    last.op = "cscc"
        => IF Succeeded /\ Pre.linkedflag # 0
           THEN /\ last.ret = 1
                /\ mem = store_cap_to_memory(Pre, last.ct,
                                             cap_get_cursor(C39_Cb)).env.mem
           ELSE /\ last.ret = 0
                /\ mem = Pre.mem

\* C39: a load-linked clears the linked flag and sets it to 1 only if all
\* its checks pass; cscc stores and returns 1 exactly when the flag is set
\* as it passes its checks, and otherwise returns 0 and leaves memory and
\* tags alone; hence after a load-linked that raised an exception the next
\* cscc never stores.
C39_LinkedProtocol ==
    /\ C39_FlagFollowsChecks
    /\ C39_StoreFollowsFlag
    /\ (last.op = "cscc" /\ prev.op \in C39_LinkOps
            /\ Pre.exception_index # "EXCP_NONE")
           => /\ last.ret = 0
              /\ mem = Pre.mem

\* What the code does: the flag is set before the load of cllc, so the
\* conclusion holds after a load-linked that failed a check, not after one
\* whose load trapped.
C39_NoStoreAfterFailedCheck ==
    /\ C39_FlagFollowsChecks
    /\ C39_StoreFollowsFlag
    /\ (last.op = "cscc" /\ prev.op \in C39_LinkOps
            /\ Pre.exception_index \in {"EXCP_C2E", "EXCP_AdEL"})
           => /\ last.ret = 0
              /\ mem = Pre.mem
    /\ (last.op \in C39_LinkOps /\ linkedflag = 1 /\ ~Succeeded)
           => last.op = "cllc" /\ exception_index = "EXCP_TLBL"

\* A cscc that stored right after a cllc whose load trapped.
C39_Witness ==
    /\ last.op = "cscc" /\ prev.op = "cllc"
    /\ Pre.exception_index = "EXCP_TLBL"
    /\ last.ret = 1
    /\ mem # Pre.mem

\* ------------------------------------------------------------------ C40
C40_Checked == last.op = "ccheck_pc"
C40_Proceeds ==
    /\ Pre.PCC.tag
    /\ cap_is_unsealed(Pre.PCC)
    /\ CAP_PERM_EXECUTE \in Pre.PCC.perms
    /\ Pre.PCC.base <= last.rt
    /\ last.rt + 4 <= cap_get_top65(Pre.PCC)

\* C40: the PC check sets PCC.offset to next_pc - PCC.base before it
\* validates, so PCC.cursor = next_pc after every PC check, raised or not;
\* the instruction proceeds only if PCC is tagged, unsealed, has EXECUTE and
\* [next_pc, next_pc + 4) is within its bounds; each PC check increments
\* icount and exactly one of icount_kernel and icount_user, so icount =
\* icount_kernel + icount_user in every reachable state.
C40_PcCheck ==
    /\ C40_Checked
           => /\ PCC = [Pre.PCC EXCEPT
                           !.offset = (last.rt + Word - Pre.PCC.base) % Word]
              /\ cap_get_cursor(PCC) = last.rt
              /\ Succeeded <=> C40_Proceeds
              /\ statcounters.icount = Pre.statcounters.icount + 1
              /\ IF Pre.kernel_mode
                 THEN /\ statcounters.icount_kernel =
                             Pre.statcounters.icount_kernel + 1
                      /\ statcounters.icount_user = Pre.statcounters.icount_user
                 ELSE /\ statcounters.icount_user =
                             Pre.statcounters.icount_user + 1
                      /\ statcounters.icount_kernel =
                             Pre.statcounters.icount_kernel
    /\ statcounters.icount =
           statcounters.icount_kernel + statcounters.icount_user

\* A PC check that raised after moving PCC, with checks counted in both
\* modes by then.
C40_Witness ==
    /\ C40_Checked
    /\ ~Succeeded
    /\ cap_get_cursor(PCC) = last.rt
    /\ cap_get_cursor(Pre.PCC) # last.rt
    /\ statcounters.icount_kernel > 0
    /\ statcounters.icount_user > 0

====
